---- MODULE Spec2Model ----
(***************************************************************************)
(* Verdict-generation engine of business-radar-core: the five rule-based   *)
(* domain analyzers (debt, market, hiring, import, idea), their verdict    *)
(* formatters, the AI fallback adapter QwenAnalyzer and the slang          *)
(* normalizer.                                                             *)
(*                                                                         *)
(* Specifications: Spec (objects and their analyze calls), SpecFormat (the *)
(* formatter functions), SpecZone (_extract_zone on provider texts),       *)
(* SpecCheck (the numeric checks on short texts), SpecConc (interleaved    *)
(* analyze calls) and SpecSlang (the normalizer).                          *)
(*                                                                         *)
(* Text.  A Python str is modelled as a sequence of characters, one        *)
(* sequence element per code point.  The module is plain ASCII, so each    *)
(* code point is written as an ASCII token: a Cyrillic letter by its       *)
(* transliteration (lower case "n", "zh", "ya"; upper case "N", "ZH",      *)
(* "YA"), a Kazakh letter likewise ("q", "ii", "ae"), a digit, a blank and *)
(* ASCII punctuation by themselves, and LF, "--" (em dash), BULLET, CROSS, *)
(* WARN, VS16, RED_CIRCLE, YELLOW_CIRCLE, GREEN_CIRCLE for the remaining   *)
(* symbols.  len(), the substring test `in`, str.lower(), str.replace(),   *)
(* float() and int() are computed on these sequences.                      *)
(***************************************************************************)
EXTENDS Integers, Sequences, FiniteSets, TLC

VARIABLES obj, use_ai, risk_factors, use_local, client, ollama_client,
          answers, op, provider, provider_calls, result, rendered, reused,
          ai_text, ai_zone,
          chk_op, chk_text, chk_other, chk_out, chk_zone, chk_raised,
          conc_domain, conc_heap, conc_acc, conc_inst, conc_data, conc_pc,
          conc_verdict, conc_ret, conc_calls,
          slang_dict, slang_log, slang_op, slang_text, slang_once, slang_twice

\* The variables of each specification.
main_vars ==
    <<obj, use_ai, risk_factors, use_local, client, ollama_client,
      answers, op, provider, provider_calls, result, rendered, reused>>

zone_vars == <<ai_text, ai_zone>>

check_vars == <<chk_op, chk_text, chk_other, chk_out, chk_zone, chk_raised>>

conc_vars ==
    <<conc_domain, conc_heap, conc_acc, conc_inst, conc_data, conc_pc, conc_verdict,
      conc_ret, conc_calls>>

slang_vars == <<slang_dict, slang_log, slang_op, slang_text, slang_once, slang_twice>>

vars == <<main_vars, zone_vars, check_vars, conc_vars, slang_vars>>

\* What the actions of one specification leave alone.
outside_main == <<zone_vars, check_vars, conc_vars, slang_vars>>

outside_zone == <<main_vars, check_vars, conc_vars, slang_vars>>

outside_check == <<main_vars, zone_vars, conc_vars, slang_vars>>

outside_conc == <<main_vars, zone_vars, check_vars, slang_vars>>

outside_slang == <<main_vars, zone_vars, check_vars, conc_vars>>

(***************************************************************************)
(* Python string primitives                                                *)
(***************************************************************************)

\* str.lower() on one character: the upper-case letters of the alphabet.
LowerChar(c) ==
    CASE c = "A" -> "a" [] c = "B" -> "b" [] c = "V" -> "v" [] c = "G" -> "g"
      [] c = "D" -> "d" [] c = "E" -> "e" [] c = "YO" -> "yo" [] c = "ZH" -> "zh"
      [] c = "Z" -> "z" [] c = "I" -> "i" [] c = "J" -> "j" [] c = "K" -> "k"
      [] c = "L" -> "l" [] c = "M" -> "m" [] c = "N" -> "n" [] c = "O" -> "o"
      [] c = "P" -> "p" [] c = "R" -> "r" [] c = "S" -> "s" [] c = "T" -> "t"
      [] c = "U" -> "u" [] c = "F" -> "f" [] c = "H" -> "h" [] c = "C" -> "c"
      [] c = "CH" -> "ch" [] c = "SH" -> "sh" [] c = "SHCH" -> "shch"
      [] c = "Y" -> "y" [] c = "EH" -> "eh" [] c = "YU" -> "yu" [] c = "YA" -> "ya"
      [] c = "AE" -> "ae" [] c = "GH" -> "gh" [] c = "Q" -> "q" [] c = "NG" -> "ng"
      [] c = "OE" -> "oe" [] c = "UU" -> "uu" [] c = "UE" -> "ue" [] c = "II" -> "ii"
      [] OTHER -> c

\* str.lower()
Lower(s) == [i \in 1..Len(s) |-> LowerChar(s[i])]

\* sub in s
Contains(sub, s) ==
    \E i \in 0..(Len(s) - Len(sub)) :
        \A j \in 1..Len(sub) : s[i + j] = sub[j]

\* s.replace(c, "") for a one-character c
RemoveChar(s, c) == SelectSeq(s, LAMBDA x : x # c)

Digits == {"0", "1", "2", "3", "4", "5", "6", "7", "8", "9"}

DigitVal(c) ==
    CASE c = "0" -> 0 [] c = "1" -> 1 [] c = "2" -> 2 [] c = "3" -> 3
      [] c = "4" -> 4 [] c = "5" -> 5 [] c = "6" -> 6 [] c = "7" -> 7
      [] c = "8" -> 8 [] c = "9" -> 9

RECURSIVE DecimalVal(_)
DecimalVal(s) ==
    IF s = <<>> THEN 0
    ELSE 10 * DecimalVal(SubSeq(s, 1, Len(s) - 1)) + DigitVal(s[Len(s)])

AllDigits(s) == \A i \in 1..Len(s) : s[i] \in Digits

\* The sign and the unsigned rest of a numeric literal.
Signed(s) == s # <<>> /\ s[1] \in {"+", "-"}
Unsigned(s) == IF Signed(s) THEN SubSeq(s, 2, Len(s)) ELSE s

\* int(s): [ok |-> FALSE] stands for ValueError.  Grammar: an optional sign
\* and one or more decimal digits (the alphabet has no "_" and no white
\* space other than the blank, which the callers remove first).
ParseInt(s) ==
    LET u == Unsigned(s) IN
    IF u # <<>> /\ AllDigits(u)
    THEN [ok |-> TRUE, val |-> IF Signed(s) /\ s[1] = "-" THEN 0 - DecimalVal(u)
                               ELSE DecimalVal(u)]
    ELSE [ok |-> FALSE, val |-> 0]

\* float(s): [ok |-> FALSE] stands for ValueError.  Grammar: an optional
\* sign, decimal digits with at most one "." and at least one digit (the
\* alphabet has no exponent letter, "inf", "nan" or "_").  The value is kept
\* exactly as sign, integer part and "has a non-zero fraction".
ParseFloat(s) ==
    LET u    == Unsigned(s)
        dots == {i \in 1..Len(u) : u[i] = "."}
        ip   == IF dots = {} THEN u
                ELSE SubSeq(u, 1, (CHOOSE i \in dots : TRUE) - 1)
        fp   == IF dots = {} THEN <<>>
                ELSE SubSeq(u, (CHOOSE i \in dots : TRUE) + 1, Len(u))
    IN  IF Cardinality(dots) <= 1 /\ AllDigits(ip) /\ AllDigits(fp)
           /\ Len(ip) + Len(fp) >= 1
        THEN [ok |-> TRUE, neg |-> Signed(s) /\ s[1] = "-",
              int |-> DecimalVal(ip),
              frac |-> \E i \in 1..Len(fp) : fp[i] # "0"]
        ELSE [ok |-> FALSE, neg |-> FALSE, int |-> 0, frac |-> FALSE]

\* x < n and x > n for a parsed float x and a natural number n.
FloatLess(x, n) ==
    IF x.neg THEN n > 0 \/ x.int > 0 \/ x.frac ELSE x.int < n
FloatGreater(x, n) ==
    IF x.neg THEN FALSE ELSE x.int > n \/ (x.int = n /\ x.frac)

\* dict.get(key, default)
Get(data, key, default) == IF key \in DOMAIN data THEN data[key] ELSE default

\* result[key] = value on a dict
SetItem(d, key, value) == (key :> value) @@ d

(***************************************************************************)
(* modules/debt.py: DebtVerdictGenerator                                   *)
(***************************************************************************)

\* Debt_reset without the assignment: the accumulator is kept.
Debt_reset_kept(rf) == rf

\* self.risk_factors = []  (debt.py:41)
Debt_reset(rf) == <<>>

\* Debt_analyze_amount with a failed parse counted as the number 0.
Debt_analyze_amount_zero(rf, amount) ==
    LET amount_num == ParseFloat(RemoveChar(RemoveChar(amount, " "), ",")) IN
    IF ~amount_num.ok \/ FloatLess(amount_num, 100000)
    THEN Append(rf, <<"S", "u", "m", "m", "a", " ", "n", "e", "b", "o", "l", "soft", "sh", "a",
                      "ya", " ", "--", " ", "s", "t", "o", "i", "t", " ", "l", "i", " ", "t",
                      "r", "a", "t", "i", "t", "soft", " ", "v", "r", "e", "m", "ya", "?">>)
    ELSE IF FloatGreater(amount_num, 5000000)
         THEN Append(rf, <<"K", "r", "u", "p", "n", "a", "ya", " ", "s", "u", "m", "m", "a",
                           " ", "--", " ", "r", "e", "k", "o", "m", "e", "n", "d", "u", "yu",
                           " ", "yu", "r", "i", "s", "t", "a", ".">>)
    ELSE rf

\* Debt_analyze_amount with the lower limit compared inclusively.
Debt_analyze_amount_inclusive(rf, amount) ==
    LET amount_num == ParseFloat(RemoveChar(RemoveChar(amount, " "), ",")) IN
    IF ~amount_num.ok THEN rf
    ELSE IF ~FloatGreater(amount_num, 100000)
         THEN Append(rf, <<"S", "u", "m", "m", "a", " ", "n", "e", "b", "o", "l", "soft", "sh",
                           "a", "ya", " ", "--", " ", "s", "t", "o", "i", "t", " ", "l", "i",
                           " ", "t", "r", "a", "t", "i", "t", "soft", " ", "v", "r", "e", "m",
                           "ya", "?">>)
    ELSE IF FloatGreater(amount_num, 5000000)
         THEN Append(rf, <<"K", "r", "u", "p", "n", "a", "ya", " ", "s", "u", "m", "m", "a",
                           " ", "--", " ", "r", "e", "k", "o", "m", "e", "n", "d", "u", "yu",
                           " ", "yu", "r", "i", "s", "t", "a", ".">>)
    ELSE rf

Debt_analyze_amount(rf, amount) ==
    LET amount_num == ParseFloat(RemoveChar(RemoveChar(amount, " "), ",")) IN
    IF ~amount_num.ok THEN rf
    ELSE IF FloatLess(amount_num, 100000)
         THEN Append(rf, <<"S", "u", "m", "m", "a", " ", "n", "e", "b", "o", "l", "soft", "sh",
                           "a", "ya", " ", "--", " ", "s", "t", "o", "i", "t", " ", "l", "i",
                           " ", "t", "r", "a", "t", "i", "t", "soft", " ", "v", "r", "e", "m",
                           "ya", "?">>)
    ELSE IF FloatGreater(amount_num, 5000000)
         THEN Append(rf, <<"K", "r", "u", "p", "n", "a", "ya", " ", "s", "u", "m", "m", "a",
                           " ", "--", " ", "r", "e", "k", "o", "m", "e", "n", "d", "u", "yu",
                           " ", "yu", "r", "i", "s", "t", "a", ".">>)
    ELSE rf

\* The exception that leaves _analyze_amount: float() raises ValueError on a
\* failed parse and the except clause (debt.py:69) names the classes it
\* absorbs.
Debt_analyze_amount_raises(amount) ==
    LET error == IF ParseFloat(RemoveChar(RemoveChar(amount, " "), ",")).ok THEN "none"
                 ELSE "ValueError"
    IN  error \notin {"none", "ValueError", "TypeError"}

\* Debt_analyze_date with the month marker tested first.
Debt_analyze_date_month_first(rf, date) ==
    LET date_lower == Lower(date) IN
    IF Contains(<<"m", "e", "s", "ya", "c">>, date_lower)
    THEN Append(rf, <<"S", "r", "o", "k", " ", "s", "r", "e", "d", "n", "i", "j", " ", "--",
                      " ", "e", "shch", "yo", " ", "m", "o", "zh", "n", "o", " ", "v", "e",
                      "r", "n", "u", "t", "soft", ".">>)
    ELSE IF Contains(<<"g", "o", "d">>, date_lower) \/ Contains(<<"l", "e", "t">>, date_lower)
    THEN Append(rf, <<"D", "o", "l", "g", " ", "s", "t", "a", "r", "y", "j", " ", "--", " ",
                      "v", "y", "s", "o", "k", "i", "j", " ", "r", "i", "s", "k", " ", "n",
                      "e", "v", "o", "z", "v", "r", "a", "t", "a", ".">>)
    ELSE rf

Debt_analyze_date(rf, date) ==
    LET date_lower == Lower(date) IN
    IF Contains(<<"g", "o", "d">>, date_lower) \/ Contains(<<"l", "e", "t">>, date_lower)
    THEN Append(rf, <<"D", "o", "l", "g", " ", "s", "t", "a", "r", "y", "j", " ", "--", " ",
                      "v", "y", "s", "o", "k", "i", "j", " ", "r", "i", "s", "k", " ", "n",
                      "e", "v", "o", "z", "v", "r", "a", "t", "a", ".">>)
    ELSE IF Contains(<<"m", "e", "s", "ya", "c">>, date_lower)
    THEN Append(rf, <<"S", "r", "o", "k", " ", "s", "r", "e", "d", "n", "i", "j", " ", "--",
                      " ", "e", "shch", "yo", " ", "m", "o", "zh", "n", "o", " ", "v", "e",
                      "r", "n", "u", "t", "soft", ".">>)
    ELSE rf

Debt_analyze_debtor_type(rf, debtor_type) ==
    IF debtor_type = <<"N", "e", "i", "z", "v", "e", "s", "t", "n", "o">> \/ debtor_type = <<"B", "e", "l", "g", "ii", "s", "ii", "z">>
    THEN Append(rf, <<"D", "o", "l", "zh", "n", "i", "k", " ", "i", "s", "ch", "e", "z", " ",
                      "--", " ", "eh", "t", "o", " ", "p", "l", "o", "h", "o", "j", " ", "z",
                      "n", "a", "k", ".">>)
    ELSE IF debtor_type = <<"CH", "a", "s", "t", "n", "o", "e", " ", "l", "i", "c", "o">> \/ debtor_type = <<"ZH", "e", "k", "e", " ", "t", "uu", "l", "gh", "a">>
    THEN Append(rf, <<"S", " ", "f", "i", "z", "l", "i", "c", " ", "v", "z", "y", "s", "k",
                      "a", "t", "soft", " ", "s", "l", "o", "zh", "n", "e", "e", ",", " ",
                      "ch", "e", "m", " ", "s", " ", "yu", "r", "l", "i", "c", ".">>)
    ELSE rf

Debt_analyze_evidence(rf, evidence) ==
    LET evidence_lower == Lower(evidence) IN
    IF Contains(<<"n", "e", "t">>, evidence_lower) \/ Contains(<<"zh", "o", "q">>, evidence_lower)
       \/ Contains(<<"n", "e", " ", "z", "n", "a", "yu">>, evidence_lower)
    THEN Append(rf, <<"N", "e", "t", " ", "d", "o", "k", "a", "z", "a", "t", "e", "l", "soft",
                      "s", "t", "v", " ", "--", " ", "p", "o", "z", "i", "c", "i", "ya", " ",
                      "s", "l", "a", "b", "a", "ya", ".">>)
    ELSE rf

Debt_analyze_contact(rf, contact) ==
    LET contact_lower == Lower(contact) IN
    IF Contains(<<"n", "e", "t">>, contact_lower) \/ Contains(<<"n", "e", " ", "v", "y", "h", "o", "d", "i", "t">>, contact_lower)
       \/ Contains(<<"zh", "o", "q">>, contact_lower)
    THEN Append(rf, <<"N", "e", " ", "v", "y", "h", "o", "d", "i", "t", " ", "n", "a", " ",
                      "s", "v", "ya", "z", "soft", " ", "--", " ", "g", "o", "t", "o", "v",
                      "soft", "t", "e", "s", "soft", " ", "k", " ", "s", "u", "d", "u", ".">>)
    ELSE rf

\* data.get("amount", "0")  (debt.py:55)
Debt_amount_default == <<"0">>

\* Debt_analyze_all with the date check run before the amount check.
Debt_analyze_all_date_first(rf, data) ==
    LET r1 == Debt_analyze_date(rf, Get(data, "date", <<>>))
        r2 == Debt_analyze_amount(r1, Get(data, "amount", Debt_amount_default))
        r3 == Debt_analyze_debtor_type(r2, Get(data, "debtor_type", <<>>))
        r4 == Debt_analyze_evidence(r3, Get(data, "evidence", <<>>))
    IN  Debt_analyze_contact(r4, Get(data, "contact_status", <<>>))

Debt_analyze_all(rf, data) ==
    LET r1 == Debt_analyze_amount(rf, Get(data, "amount", Debt_amount_default))
        r2 == Debt_analyze_date(r1, Get(data, "date", <<>>))
        r3 == Debt_analyze_debtor_type(r2, Get(data, "debtor_type", <<>>))
        r4 == Debt_analyze_evidence(r3, Get(data, "evidence", <<>>))
    IN  Debt_analyze_contact(r4, Get(data, "contact_status", <<>>))

\* Debt_generate_verdict with `> 3` for the red threshold.
Debt_generate_verdict_gt3(rf) ==
    IF Len(rf) > 3
    THEN [text |-> <<"RED_CIRCLE", " ", "K", "r", "a", "s", "n", "a", "ya", " ", "z", "o", "n",
                     "a", "LF", "LF", "SH", "a", "n", "s", "y", " ", "n", "a", " ", "v", "o",
                     "z", "v", "r", "a", "t", " ", "n", "i", "z", "k", "i", "e", ".">>, zone |-> "red"]
    ELSE IF Len(rf) >= 1
    THEN [text |-> <<"YELLOW_CIRCLE", " ", "ZH", "yo", "l", "t", "a", "ya", " ", "z", "o", "n",
                     "a", "LF", "LF", "SH", "a", "n", "s", "y", " ", "5", "0", "/", "5", "0",
                     ".">>, zone |-> "yellow"]
    ELSE [text |-> <<"GREEN_CIRCLE", " ", "Z", "e", "l", "yo", "n", "a", "ya", " ", "z", "o",
                     "n", "a", "LF", "LF", "H", "o", "r", "o", "sh", "i", "e", " ", "sh", "a",
                     "n", "s", "y", " ", "n", "a", " ", "v", "o", "z", "v", "r", "a", "t", ".">>, zone |-> "green"]

Debt_generate_verdict(rf) ==
    IF Len(rf) >= 3
    THEN [text |-> <<"RED_CIRCLE", " ", "K", "r", "a", "s", "n", "a", "ya", " ", "z", "o", "n",
                     "a", "LF", "LF", "SH", "a", "n", "s", "y", " ", "n", "a", " ", "v", "o",
                     "z", "v", "r", "a", "t", " ", "n", "i", "z", "k", "i", "e", ".">>, zone |-> "red"]
    ELSE IF Len(rf) >= 1
    THEN [text |-> <<"YELLOW_CIRCLE", " ", "ZH", "yo", "l", "t", "a", "ya", " ", "z", "o", "n",
                     "a", "LF", "LF", "SH", "a", "n", "s", "y", " ", "5", "0", "/", "5", "0",
                     ".">>, zone |-> "yellow"]
    ELSE [text |-> <<"GREEN_CIRCLE", " ", "Z", "e", "l", "yo", "n", "a", "ya", " ", "z", "o",
                     "n", "a", "LF", "LF", "H", "o", "r", "o", "sh", "i", "e", " ", "sh", "a",
                     "n", "s", "y", " ", "n", "a", " ", "v", "o", "z", "v", "r", "a", "t", ".">>, zone |-> "green"]

\* Debt_get_recommendation with the red entry stored under another key.
Debt_get_recommendation_no_red(zone) ==
    CASE zone = "critical" ->
           <<"R", "e", "k", "o", "m", "e", "n", "d", "u", "yu", " ", "o", "b", "r", "a", "t",
             "i", "t", "soft", "s", "ya", " ", "k", " ", "yu", "r", "i", "s", "t", "u", ".",
             " ", "SH", "a", "n", "s", "y", " ", "n", "i", "z", "k", "i", "e", ",", " ", "n",
             "o", " ", "p", "o", "p", "r", "o", "b", "o", "v", "a", "t", "soft", " ", "s", "t",
             "o", "i", "t", ".">>
      [] zone = "yellow" ->
           <<"M", "o", "zh", "n", "o", " ", "p", "o", "p", "r", "o", "b", "o", "v", "a", "t",
             "soft", " ", "v", "e", "r", "n", "u", "t", "soft", " ", "s", "a", "m", "o", "s",
             "t", "o", "ya", "t", "e", "l", "soft", "n", "o", ".", " ", "N", "a", "ch", "n",
             "i", "t", "e", " ", "s", " ", "o", "f", "i", "c", "i", "a", "l", "soft", "n", "o",
             "j", " ", "p", "r", "e", "t", "e", "n", "z", "i", "i", ".">>
      [] zone = "green" ->
           <<"V", "y", "s", "o", "k", "i", "e", " ", "sh", "a", "n", "s", "y", " ", "n", "a",
             " ", "v", "o", "z", "v", "r", "a", "t", ".", " ", "N", "a", "ch", "n", "i", "t",
             "e", " ", "s", " ", "p", "e", "r", "e", "g", "o", "v", "o", "r", "o", "v", ",",
             " ", "z", "a", "t", "e", "m", " ", "p", "r", "e", "t", "e", "n", "z", "i", "ya",
             ".">>
      [] OTHER -> <<>>

Debt_get_recommendation(zone) ==
    CASE zone = "red" ->
           <<"R", "e", "k", "o", "m", "e", "n", "d", "u", "yu", " ", "o", "b", "r", "a", "t",
             "i", "t", "soft", "s", "ya", " ", "k", " ", "yu", "r", "i", "s", "t", "u", ".",
             " ", "SH", "a", "n", "s", "y", " ", "n", "i", "z", "k", "i", "e", ",", " ", "n",
             "o", " ", "p", "o", "p", "r", "o", "b", "o", "v", "a", "t", "soft", " ", "s", "t",
             "o", "i", "t", ".">>
      [] zone = "yellow" ->
           <<"M", "o", "zh", "n", "o", " ", "p", "o", "p", "r", "o", "b", "o", "v", "a", "t",
             "soft", " ", "v", "e", "r", "n", "u", "t", "soft", " ", "s", "a", "m", "o", "s",
             "t", "o", "ya", "t", "e", "l", "soft", "n", "o", ".", " ", "N", "a", "ch", "n",
             "i", "t", "e", " ", "s", " ", "o", "f", "i", "c", "i", "a", "l", "soft", "n", "o",
             "j", " ", "p", "r", "e", "t", "e", "n", "z", "i", "i", ".">>
      [] zone = "green" ->
           <<"V", "y", "s", "o", "k", "i", "e", " ", "sh", "a", "n", "s", "y", " ", "n", "a",
             " ", "v", "o", "z", "v", "r", "a", "t", ".", " ", "N", "a", "ch", "n", "i", "t",
             "e", " ", "s", " ", "p", "e", "r", "e", "g", "o", "v", "o", "r", "o", "v", ",",
             " ", "z", "a", "t", "e", "m", " ", "p", "r", "e", "t", "e", "n", "z", "i", "ya",
             ".">>
      [] OTHER -> <<>>

\* The rule-based part of analyze (debt.py:40-51).  rf is self.risk_factors
\* on entry; the value is the returned dict and self.risk_factors on exit.
Debt_rule_based(rf, data) ==
    LET rf1     == Debt_analyze_all(Debt_reset(rf), data)
        verdict == Debt_generate_verdict(rf1)
    IN  [ret |-> [verdict        |-> verdict.text,
                  zone           |-> verdict.zone,
                  risk_factors   |-> rf1,
                  recommendation |-> Debt_get_recommendation(verdict.zone),
                  ai_generated   |-> FALSE],
         risk_factors |-> rf1]

(***************************************************************************)
(* modules/market.py: MarketVerdictGenerator                               *)
(***************************************************************************)

\* self.issues = []  (market.py:33)
Market_reset(issues) == <<>>

\* The exception that leaves _analyze_sales: int() raises ValueError on a
\* failed parse and the except clause (market.py:64) names the classes it
\* absorbs.
Market_analyze_sales_raises(sales) ==
    LET error == IF ParseInt(RemoveChar(RemoveChar(sales, " "), ",")).ok THEN "none"
                 ELSE "ValueError"
    IN  error \notin {"none", "ValueError", "TypeError"}

Market_analyze_sales(issues, sales) ==
    LET sales_num == ParseInt(RemoveChar(RemoveChar(sales, " "), ",")) IN
    IF sales_num.ok /\ sales_num.val = 0
    THEN Append(issues, <<"CROSS", " ", "P", "r", "o", "d", "a", "zh", " ", "n", "e", "t", " ",
                          "--", " ", "p", "r", "o", "b", "l", "e", "m", "a", " ", "m", "o",
                          "zh", "e", "t", " ", "b", "y", "t", "soft", " ", "v", " ", "c", "e",
                          "n", "e", " ", "i", "l", "i", " ", "k", "a", "n", "a", "l", "e">>)
    ELSE issues

Market_analyze_competitors(issues, competitors) ==
    LET competitors_lower == Lower(competitors) IN
    IF Contains(<<"n", "e", " ", "z", "n", "a", "yu">>, competitors_lower)
       \/ Contains(<<"b", "ii", "l", "m", "e", "j", "m", "ii", "n">>, competitors_lower)
    THEN Append(issues, <<"CROSS", " ", "K", "o", "n", "k", "u", "r", "e", "n", "t", "o", "v",
                          " ", "n", "e", " ", "i", "z", "u", "ch", "i", "l", " ", "--", " ",
                          "n", "e", " ", "m", "o", "zh", "e", "sh", "soft", " ", "p", "o", "z",
                          "i", "c", "i", "o", "n", "i", "r", "o", "v", "a", "t", "soft", "s",
                          "ya">>)
    ELSE issues

\* Market_analyze_price with the sales logic wired to the price.
Market_analyze_price_active(issues, price) ==
    LET price_num == ParseInt(RemoveChar(RemoveChar(price, " "), ",")) IN
    IF price_num.ok /\ price_num.val = 0
    THEN Append(issues, <<"CROSS", " ", "P", "r", "o", "d", "a", "zh", " ", "n", "e", "t", " ",
                          "--", " ", "p", "r", "o", "b", "l", "e", "m", "a", " ", "m", "o",
                          "zh", "e", "t", " ", "b", "y", "t", "soft", " ", "v", " ", "c", "e",
                          "n", "e", " ", "i", "l", "i", " ", "k", "a", "n", "a", "l", "e">>)
    ELSE issues

\* placeholder: pass
Market_analyze_price(issues, price) == issues

\* data.get("sales_volume", "0")  (market.py:35)
Market_sales_default == <<"0">>

\* data.get("price", "0")  (market.py:37)
Market_price_default == <<"0">>

\* Market_generate_verdict with the thresholds of the other domains.
Market_generate_verdict_ge3(issues) ==
    IF Len(issues) >= 3
    THEN [text |-> <<"RED_CIRCLE", " ", "K", "r", "a", "s", "n", "a", "ya", " ", "z", "o", "n",
                     "a", "LF", "LF", "P", "o", "z", "i", "c", "i", "ya", " ", "o", "p", "a",
                     "s", "n", "a", "ya", ".">>, zone |-> "red"]
    ELSE IF Len(issues) >= 1
    THEN [text |-> <<"YELLOW_CIRCLE", " ", "ZH", "yo", "l", "t", "a", "ya", " ", "z", "o", "n",
                     "a", "LF", "LF", "E", "s", "t", "soft", " ", "r", "i", "s", "k", "i", ".">>, zone |-> "yellow"]
    ELSE [text |-> <<"GREEN_CIRCLE", " ", "Z", "e", "l", "yo", "n", "a", "ya", " ", "z", "o",
                     "n", "a", "LF", "LF", "P", "o", "z", "i", "c", "i", "ya", " ", "n", "a",
                     " ", "r", "y", "n", "k", "e", " ", "n", "o", "r", "m", "a", "l", "soft",
                     "n", "a", "ya", ".">>, zone |-> "green"]

Market_generate_verdict(issues) ==
    IF Len(issues) >= 2
    THEN [text |-> <<"RED_CIRCLE", " ", "K", "r", "a", "s", "n", "a", "ya", " ", "z", "o", "n",
                     "a", "LF", "LF", "P", "o", "z", "i", "c", "i", "ya", " ", "o", "p", "a",
                     "s", "n", "a", "ya", ".">>, zone |-> "red"]
    ELSE IF Len(issues) >= 1
    THEN [text |-> <<"YELLOW_CIRCLE", " ", "ZH", "yo", "l", "t", "a", "ya", " ", "z", "o", "n",
                     "a", "LF", "LF", "E", "s", "t", "soft", " ", "r", "i", "s", "k", "i", ".">>, zone |-> "yellow"]
    ELSE [text |-> <<"GREEN_CIRCLE", " ", "Z", "e", "l", "yo", "n", "a", "ya", " ", "z", "o",
                     "n", "a", "LF", "LF", "P", "o", "z", "i", "c", "i", "ya", " ", "n", "a",
                     " ", "r", "y", "n", "k", "e", " ", "n", "o", "r", "m", "a", "l", "soft",
                     "n", "a", "ya", ".">>, zone |-> "green"]

Market_get_recommendation(zone) ==
    CASE zone = "red" ->
           <<"S", "r", "o", "ch", "n", "o", " ", "i", "z", "u", "ch", "i", "t", "e", " ", "k",
             "o", "n", "k", "u", "r", "e", "n", "t", "o", "v", " ", "i", " ", "p", "e", "r",
             "e", "s", "m", "o", "t", "r", "i", "t", "e", " ", "c", "e", "n", "u", ".", " ",
             "P", "r", "o", "d", "a", "zh", " ", "n", "e", "t", " ", "n", "e", " ", "p", "r",
             "o", "s", "t", "o", " ", "t", "a", "k", ".">>
      [] zone = "yellow" ->
           <<"I", "z", "u", "ch", "i", "t", "e", " ", "k", "o", "n", "k", "u", "r", "e", "n",
             "t", "o", "v", " ", "i", " ", "s", "r", "a", "v", "n", "i", "t", "e", " ", "c",
             "e", "n", "y", ".", " ", "V", "o", "z", "m", "o", "zh", "n", "o", ",", " ", "v",
             "y", " ", "n", "e", " ", "v", " ", "r", "y", "n", "k", "e", ".">>
      [] zone = "green" ->
           <<"P", "o", "z", "i", "c", "i", "ya", " ", "n", "o", "r", "m", "a", "l", "soft",
             "n", "a", "ya", ".", " ", "P", "r", "o", "d", "o", "l", "zh", "a", "j", "t", "e",
             " ", "m", "o", "n", "i", "t", "o", "r", "i", "t", "soft", " ", "r", "y", "n", "o",
             "k", " ", "i", " ", "k", "o", "n", "k", "u", "r", "e", "n", "t", "o", "v", ".">>
      [] OTHER -> <<>>

\* analyze (market.py:19-56): the returned dict and self.issues on exit.
Market_analyze(issues, data) ==
    LET sales       == Get(data, "sales_volume", Market_sales_default)
        competitors == Get(data, "competitors", <<>>)
        price       == Get(data, "price", Market_price_default)
        i1          == Market_analyze_sales(Market_reset(issues), sales)
        i2          == Market_analyze_competitors(i1, competitors)
        i3          == Market_analyze_price(i2, price)
        verdict     == Market_generate_verdict(i3)
    IN  [ret |-> [verdict        |-> verdict.text,
                  zone           |-> verdict.zone,
                  issues         |-> i3,
                  recommendation |-> Market_get_recommendation(verdict.zone)],
         risk_factors |-> i3]

(***************************************************************************)
(* modules/hiring.py: HiringVerdictGenerator                               *)
(***************************************************************************)

\* self.risk_factors = []  (hiring.py:33)
Hiring_reset(rf) == <<>>

Hiring_analyze_experience(rf, experience) ==
    LET exp_lower == Lower(experience) IN
    IF Contains(<<"b", "e", "z">>, exp_lower) \/ Contains(<<"t", "ae", "zh", "ii", "r", "i", "b", "e", "s", "ii",
                                          "z">>, exp_lower)
       \/ experience = <<"0">>
    THEN Append(rf, <<"CROSS", " ", "N", "e", "t", " ", "o", "p", "y", "t", "a", " ", "--",
                      " ", "v", "y", "s", "o", "k", "i", "j", " ", "r", "i", "s", "k", " ",
                      "o", "sh", "i", "b", "o", "k">>)
    ELSE rf

Hiring_analyze_references(rf, references) ==
    LET ref_lower == Lower(references) IN
    IF Contains(<<"n", "e", "t">>, ref_lower) \/ Contains(<<"zh", "o", "q">>, ref_lower)
    THEN Append(rf, <<"CROSS", " ", "N", "e", "t", " ", "r", "e", "k", "o", "m", "e", "n", "d",
                      "a", "c", "i", "j", " ", "--", " ", "k", "r", "a", "s", "n", "y", "j",
                      " ", "f", "l", "a", "g">>)
    ELSE rf

Hiring_analyze_probation(rf, probation) ==
    LET prob_lower == Lower(probation) IN
    IF Contains(<<"n", "e", "t">>, prob_lower) \/ Contains(<<"zh", "o", "q">>, prob_lower)
    THEN Append(rf, <<"WARN", "VS16", " ", "N", "e", "t", " ", "i", "s", "p", "y", "t", "a",
                      "t", "e", "l", "soft", "n", "o", "g", "o", " ", "s", "r", "o", "k", "a",
                      " ", "--", " ", "r", "i", "s", "k", " ", "o", "sh", "i", "b", "k", "i",
                      " ", "p", "r", "i", " ", "n", "a", "j", "m", "e">>)
    ELSE rf

\* placeholder: pass
Hiring_analyze_salary(rf, salary) == rf

\* Hiring_generate_verdict with the thresholds of the market domain.
Hiring_generate_verdict_ge2(rf) ==
    IF Len(rf) >= 2
    THEN [text |-> <<"RED_CIRCLE", " ", "V", "y", "s", "o", "k", "i", "j", " ", "r", "i", "s",
                     "k", "LF", "LF", "K", "a", "n", "d", "i", "d", "a", "t", " ", "o", "p",
                     "a", "s", "e", "n", ".">>, level |-> "high"]
    ELSE IF Len(rf) >= 1
    THEN [text |-> <<"YELLOW_CIRCLE", " ", "S", "r", "e", "d", "n", "i", "j", " ", "r", "i",
                     "s", "k", "LF", "LF", "E", "s", "t", "soft", " ", "r", "i", "s", "k", "i",
                     ".">>, level |-> "medium"]
    ELSE [text |-> <<"GREEN_CIRCLE", " ", "N", "i", "z", "k", "i", "j", " ", "r", "i", "s",
                     "k", "LF", "LF", "K", "a", "n", "d", "i", "d", "a", "t", " ", "v", "y",
                     "g", "l", "ya", "d", "i", "t", " ", "n", "a", "d", "yo", "zh", "n", "o",
                     ".">>, level |-> "low"]

Hiring_generate_verdict(rf) ==
    IF Len(rf) >= 3
    THEN [text |-> <<"RED_CIRCLE", " ", "V", "y", "s", "o", "k", "i", "j", " ", "r", "i", "s",
                     "k", "LF", "LF", "K", "a", "n", "d", "i", "d", "a", "t", " ", "o", "p",
                     "a", "s", "e", "n", ".">>, level |-> "high"]
    ELSE IF Len(rf) >= 1
    THEN [text |-> <<"YELLOW_CIRCLE", " ", "S", "r", "e", "d", "n", "i", "j", " ", "r", "i",
                     "s", "k", "LF", "LF", "E", "s", "t", "soft", " ", "r", "i", "s", "k", "i",
                     ".">>, level |-> "medium"]
    ELSE [text |-> <<"GREEN_CIRCLE", " ", "N", "i", "z", "k", "i", "j", " ", "r", "i", "s",
                     "k", "LF", "LF", "K", "a", "n", "d", "i", "d", "a", "t", " ", "v", "y",
                     "g", "l", "ya", "d", "i", "t", " ", "n", "a", "d", "yo", "zh", "n", "o",
                     ".">>, level |-> "low"]

Hiring_get_recommendation(level) ==
    CASE level = "high" ->
           <<"R", "e", "k", "o", "m", "e", "n", "d", "u", "yu", " ", "o", "t", "k", "a", "z",
             "a", "t", "soft", "s", "ya", ".", " ", "S", "l", "i", "sh", "k", "o", "m", " ",
             "m", "n", "o", "g", "o", " ", "k", "r", "a", "s", "n", "y", "h", " ", "f", "l",
             "a", "g", "o", "v", ".">>
      [] level = "medium" ->
           <<"M", "o", "zh", "n", "o", " ", "r", "a", "s", "s", "m", "o", "t", "r", "e", "t",
             "soft", ",", " ", "n", "o", " ", "s", " ", "o", "s", "t", "o", "r", "o", "zh",
             "n", "o", "s", "t", "soft", "yu", ".", " ", "V", "v", "e", "d", "i", "t", "e",
             " ", "i", "s", "p", "y", "t", "a", "t", "e", "l", "soft", "n", "y", "j", " ", "s",
             "r", "o", "k", ".">>
      [] level = "low" ->
           <<"K", "a", "n", "d", "i", "d", "a", "t", " ", "v", "y", "g", "l", "ya", "d", "i",
             "t", " ", "n", "a", "d", "yo", "zh", "n", "o", ".", " ", "M", "o", "zh", "n", "o",
             " ", "p", "r", "e", "d", "l", "a", "g", "a", "t", "soft", " ", "o", "f", "f", "e",
             "r", ".">>
      [] OTHER -> <<>>

\* analyze (hiring.py:21-60)
Hiring_analyze(rf, data) ==
    LET experience == Get(data, "experience", <<>>)
        references == Get(data, "references", <<>>)
        probation  == Get(data, "probation", <<>>)
        salary     == Get(data, "salary", <<>>)
        r1         == Hiring_analyze_experience(Hiring_reset(rf), experience)
        r2         == Hiring_analyze_references(r1, references)
        r3         == Hiring_analyze_probation(r2, probation)
        r4         == Hiring_analyze_salary(r3, salary)
        verdict    == Hiring_generate_verdict(r4)
    IN  [ret |-> [verdict        |-> verdict.text,
                  risk_level     |-> verdict.level,
                  risk_factors   |-> r4,
                  recommendation |-> Hiring_get_recommendation(verdict.level)],
         risk_factors |-> r4]

(***************************************************************************)
(* modules/import_mod.py: ImportVerdictGenerator                           *)
(***************************************************************************)

\* self.risk_factors = []  (import_mod.py:33)
Import_reset(rf) == <<>>

Import_analyze_supplier_check(rf, supplier_check) ==
    LET check_lower == Lower(supplier_check) IN
    IF Contains(<<"n", "e", " ", "p", "r", "o", "v", "e", "r", "ya", "l">>, check_lower) \/ Contains(<<"t", "e", "k", "s", "e", "r", "m", "e", "d", "ii", "m">>, check_lower)
    THEN Append(rf, <<"RED_CIRCLE", " ", "N", "e", " ", "p", "r", "o", "v", "e", "r", "ya",
                      "l", " ", "p", "o", "s", "t", "a", "v", "shch", "i", "k", "a", " ", "--",
                      " ", "9", "0", "%", " ", "p", "r", "o", "b", "l", "e", "m", " ", "o",
                      "t", " ", "eh", "t", "o", "g", "o">>)
    ELSE rf

Import_analyze_payment_terms(rf, payment) ==
    LET payment_lower == Lower(payment) IN
    IF Contains(<<"1", "0", "0", "%">>, payment_lower) \/ Contains(<<"a", "l", "d", "y", "n", " ", "a", "l", "a">>, payment_lower)
       \/ Contains(<<"p", "r", "e", "d", "o", "p", "l", "a", "t", "a">>, payment_lower)
    THEN Append(rf, <<"RED_CIRCLE", " ", "1", "0", "0", "%", " ", "p", "r", "e", "d", "o", "p",
                      "l", "a", "t", "a", " ", "--", " ", "m", "a", "k", "s", "i", "m", "a",
                      "l", "soft", "n", "y", "j", " ", "r", "i", "s", "k">>)
    ELSE rf

Import_analyze_country(rf, country) ==
    LET country_lower == Lower(country) IN
    IF Contains(<<"k", "i", "t", "a", "j">>, country_lower) \/ Contains(<<"q", "y", "t", "a", "j">>, country_lower)
    THEN Append(rf, <<"WARN", "VS16", " ", "K", "i", "t", "a", "j", " ", "--", " ", "d", "o",
                      "l", "g", "a", "ya", " ", "d", "o", "s", "t", "a", "v", "k", "a", ",",
                      " ", "v", "o", "z", "m", "o", "zh", "e", "n", " ", "b", "r", "a", "k">>)
    ELSE rf

\* placeholder: pass
Import_analyze_batch_size(rf, batch) == rf

\* Import_generate_verdict with the red tier from two signals on.
Import_generate_verdict_ge2(rf) ==
    IF Len(rf) >= 2
    THEN [text |-> <<"RED_CIRCLE", " ", "K", "r", "a", "s", "n", "a", "ya", " ", "z", "o", "n",
                     "a", "LF", "LF", "O", "ch", "e", "n", "soft", " ", "v", "y", "s", "o",
                     "k", "i", "e", " ", "r", "i", "s", "k", "i", ".">>, zone |-> "red"]
    ELSE IF Len(rf) >= 1
    THEN [text |-> <<"YELLOW_CIRCLE", " ", "ZH", "yo", "l", "t", "a", "ya", " ", "z", "o", "n",
                     "a", "LF", "LF", "E", "s", "t", "soft", " ", "r", "i", "s", "k", "i", ".">>, zone |-> "yellow"]
    ELSE [text |-> <<"GREEN_CIRCLE", " ", "Z", "e", "l", "yo", "n", "a", "ya", " ", "z", "o",
                     "n", "a", "LF", "LF", "R", "i", "s", "k", "i", " ", "m", "i", "n", "i",
                     "m", "a", "l", "soft", "n", "y", "e", ".">>, zone |-> "green"]

Import_generate_verdict(rf) ==
    IF Len(rf) >= 3
    THEN [text |-> <<"RED_CIRCLE", " ", "K", "r", "a", "s", "n", "a", "ya", " ", "z", "o", "n",
                     "a", "LF", "LF", "O", "ch", "e", "n", "soft", " ", "v", "y", "s", "o",
                     "k", "i", "e", " ", "r", "i", "s", "k", "i", ".">>, zone |-> "red"]
    ELSE IF Len(rf) >= 1
    THEN [text |-> <<"YELLOW_CIRCLE", " ", "ZH", "yo", "l", "t", "a", "ya", " ", "z", "o", "n",
                     "a", "LF", "LF", "E", "s", "t", "soft", " ", "r", "i", "s", "k", "i", ".">>, zone |-> "yellow"]
    ELSE [text |-> <<"GREEN_CIRCLE", " ", "Z", "e", "l", "yo", "n", "a", "ya", " ", "z", "o",
                     "n", "a", "LF", "LF", "R", "i", "s", "k", "i", " ", "m", "i", "n", "i",
                     "m", "a", "l", "soft", "n", "y", "e", ".">>, zone |-> "green"]

Import_get_recommendation(zone) ==
    CASE zone = "red" ->
           <<"K", "r", "i", "t", "i", "ch", "e", "s", "k", "i", "e", " ", "r", "i", "s", "k",
             "i", "!", " ", "P", "r", "o", "v", "e", "r", "soft", "t", "e", " ", "p", "o", "s",
             "t", "a", "v", "shch", "i", "k", "a", ",", " ", "n", "e", " ", "p", "l", "a", "t",
             "i", "t", "e", " ", "1", "0", "0", "%", " ", "v", "p", "e", "r", "yo", "d", ".">>
      [] zone = "yellow" ->
           <<"E", "s", "t", "soft", " ", "r", "i", "s", "k", "i", ",", " ", "n", "o", " ", "u",
             "p", "r", "a", "v", "l", "ya", "e", "m", "y", "e", ".", " ", "P", "r", "o", "v",
             "e", "r", "soft", "t", "e", " ", "p", "o", "s", "t", "a", "v", "shch", "i", "k",
             "a", " ", "p", "e", "r", "e", "d", " ", "o", "p", "l", "a", "t", "o", "j", ".">>
      [] zone = "green" ->
           <<"R", "i", "s", "k", "i", " ", "m", "i", "n", "i", "m", "a", "l", "soft", "n", "y",
             "e", ".", " ", "M", "o", "zh", "n", "o", " ", "p", "r", "o", "d", "o", "l", "zh",
             "a", "t", "soft", ",", " ", "n", "o", " ", "p", "r", "o", "v", "e", "r", "ya",
             "j", "t", "e", " ", "d", "o", "k", "u", "m", "e", "n", "t", "y", ".">>
      [] OTHER -> <<>>

\* analyze (import_mod.py:21-60)
Import_analyze(rf, data) ==
    LET supplier_check == Get(data, "supplier_check", <<>>)
        payment        == Get(data, "payment_terms", <<>>)
        country        == Get(data, "country", <<>>)
        batch          == Get(data, "batch_size", <<>>)
        r1             == Import_analyze_supplier_check(Import_reset(rf), supplier_check)
        r2             == Import_analyze_payment_terms(r1, payment)
        r3             == Import_analyze_country(r2, country)
        r4             == Import_analyze_batch_size(r3, batch)
        verdict        == Import_generate_verdict(r4)
    IN  [ret |-> [verdict        |-> verdict.text,
                  zone           |-> verdict.zone,
                  risk_factors   |-> r4,
                  recommendation |-> Import_get_recommendation(verdict.zone)],
         risk_factors |-> r4]

(***************************************************************************)
(* modules/idea.py: IdeaVerdictGenerator                                   *)
(***************************************************************************)

\* self.weak_points = []  (idea.py:33)
Idea_reset(wp) == <<>>

\* Idea_analyze_idea_description with the length compared inclusively.
Idea_analyze_idea_description_inclusive(wp, idea) ==
    IF Len(idea) <= 20
    THEN Append(wp, <<"CROSS", " ", "I", "d", "e", "ya", " ", "o", "p", "i", "s", "a", "n",
                      "a", " ", "s", "l", "i", "sh", "k", "o", "m", " ", "k", "r", "a", "t",
                      "k", "o">>)
    ELSE wp

Idea_analyze_idea_description(wp, idea) ==
    IF Len(idea) < 20
    THEN Append(wp, <<"CROSS", " ", "I", "d", "e", "ya", " ", "o", "p", "i", "s", "a", "n",
                      "a", " ", "s", "l", "i", "sh", "k", "o", "m", " ", "k", "r", "a", "t",
                      "k", "o">>)
    ELSE wp

Idea_analyze_audience(wp, audience) ==
    LET audience_lower == Lower(audience) IN
    IF Contains(<<"n", "e", " ", "z", "n", "a", "yu">>, audience_lower) \/ Contains(<<"b", "ii", "l", "m", "e", "j", "m", "ii", "n">>, audience_lower)
       \/ Len(audience) < 10
    THEN Append(wp, <<"CROSS", " ", "K", "l", "i", "e", "n", "t", " ", "n", "e", " ", "o", "p",
                      "r", "e", "d", "e", "l", "yo", "n">>)
    ELSE wp

Idea_analyze_competition(wp, competition) ==
    LET comp_lower == Lower(competition) IN
    IF Contains(<<"n", "e", " ", "z", "n", "a", "yu">>, comp_lower) \/ Contains(<<"b", "ii", "l", "m", "e", "j", "m", "ii", "n">>, comp_lower)
    THEN Append(wp, <<"CROSS", " ", "K", "o", "n", "k", "u", "r", "e", "n", "t", "o", "v", " ",
                      "n", "e", " ", "i", "z", "u", "ch", "a", "l">>)
    ELSE wp

Idea_analyze_revenue_model(wp, revenue) ==
    IF Len(revenue) < 10
    THEN Append(wp, <<"CROSS", " ", "M", "o", "d", "e", "l", "soft", " ", "d", "o", "h", "o",
                      "d", "a", " ", "n", "e", "ya", "s", "n", "a">>)
    ELSE wp

\* placeholder: pass
Idea_analyze_investment(wp, investment) == wp

Idea_generate_verdict(wp) ==
    IF Len(wp) >= 3
    THEN [text |-> <<"RED_CIRCLE", " ", "K", "r", "a", "s", "n", "a", "ya", " ", "z", "o", "n",
                     "a", "LF", "LF", "I", "d", "e", "ya", " ", "s", "y", "r", "a", "ya", ".",
                     " ", "M", "n", "o", "g", "o", " ", "n", "e", "i", "z", "v", "e", "s", "t",
                     "n", "y", "h", ".">>, zone |-> "red"]
    ELSE IF Len(wp) >= 1
    THEN [text |-> <<"YELLOW_CIRCLE", " ", "ZH", "yo", "l", "t", "a", "ya", " ", "z", "o", "n",
                     "a", "LF", "LF", "I", "d", "e", "ya", " ", "i", "m", "e", "e", "t", " ",
                     "p", "r", "a", "v", "o", " ", "n", "a", " ", "zh", "i", "z", "n", "soft",
                     ".">>, zone |-> "yellow"]
    ELSE [text |-> <<"GREEN_CIRCLE", " ", "Z", "e", "l", "yo", "n", "a", "ya", " ", "z", "o",
                     "n", "a", "LF", "LF", "I", "d", "e", "ya", " ", "p", "r", "o", "r", "a",
                     "b", "o", "t", "a", "n", "a", " ", "h", "o", "r", "o", "sh", "o", ".">>, zone |-> "green"]

Idea_get_recommendation(zone) ==
    CASE zone = "red" ->
           <<"I", "d", "e", "ya", " ", "s", "l", "i", "sh", "k", "o", "m", " ", "s", "y", "r",
             "a", "ya", ".", " ", "P", "r", "o", "r", "a", "b", "o", "t", "a", "j", "t", "e",
             " ", "k", "a", "zh", "d", "y", "j", " ", "p", "u", "n", "k", "t", ":", " ", "k",
             "l", "i", "e", "n", "t", ",", " ", "k", "o", "n", "k", "u", "r", "e", "n", "t",
             "y", ",", " ", "d", "o", "h", "o", "d", ".">>
      [] zone = "yellow" ->
           <<"I", "d", "e", "ya", " ", "i", "m", "e", "e", "t", " ", "p", "o", "t", "e", "n",
             "c", "i", "a", "l", ",", " ", "n", "o", " ", "t", "r", "e", "b", "u", "e", "t",
             " ", "d", "o", "r", "a", "b", "o", "t", "k", "i", ".", " ", "I", "z", "u", "ch",
             "i", "t", "e", " ", "s", "l", "a", "b", "y", "e", " ", "m", "e", "s", "t", "a", ".">>
      [] zone = "green" ->
           <<"I", "d", "e", "ya", " ", "h", "o", "r", "o", "sh", "o", " ", "p", "r", "o", "r",
             "a", "b", "o", "t", "a", "n", "a", ".", " ", "M", "o", "zh", "n", "o", " ", "n",
             "a", "ch", "i", "n", "a", "t", "soft", " ", "b", "y", "s", "t", "r", "y", "j",
             " ", "t", "e", "s", "t", ".">>
      [] OTHER -> <<>>

\* analyze (idea.py:21-64)
Idea_analyze(wp, data) ==
    LET idea        == Get(data, "idea_description", <<>>)
        audience    == Get(data, "target_audience", <<>>)
        competition == Get(data, "competition", <<>>)
        revenue     == Get(data, "revenue_model", <<>>)
        investment  == Get(data, "investment", <<>>)
        w1          == Idea_analyze_idea_description(Idea_reset(wp), idea)
        w2          == Idea_analyze_audience(w1, audience)
        w3          == Idea_analyze_competition(w2, competition)
        w4          == Idea_analyze_revenue_model(w3, revenue)
        w5          == Idea_analyze_investment(w4, investment)
        verdict     == Idea_generate_verdict(w5)
    IN  [ret |-> [verdict        |-> verdict.text,
                  zone           |-> verdict.zone,
                  weak_points    |-> w5,
                  recommendation |-> Idea_get_recommendation(verdict.zone)],
         risk_factors |-> w5]

(***************************************************************************)
(* utils/llm.py: QwenAnalyzer                                              *)
(*                                                                         *)
(* An Optional[str] is [none |-> TRUE, text |-> <<>>] for None and         *)
(* [none |-> FALSE, text |-> s] for the str s.  What the provider library  *)
(* does when it is called is an input `outcome`: kind "raise" (the call    *)
(* raises), "none" (it returns None) or "text" (it returns outcome.text).  *)
(***************************************************************************)

None == [none |-> TRUE, text |-> <<>>]
Str(s) == [none |-> FALSE, text |-> s]

\* Truthy as `if response is not None:`.
Truthy_not_none(response) == ~response.none

\* `if response:`
Truthy(response) == ~response.none /\ response.text # <<>>

\* __init__ (llm.py:20-42): the fields set for the given key, flag and
\* installed client libraries.
Qwen_init(api_key, local, has_dashscope, has_ollama) ==
    [use_local     |-> local,
     client        |-> api_key /\ ~local /\ has_dashscope,
     ollama_client |-> local /\ has_ollama]

\* try: return <provider call>  except Exception: return None
Qwen_generate_dashscope(outcome) ==
    IF outcome.kind = "raise" THEN None
    ELSE IF outcome.kind = "none" THEN None
    ELSE Str(outcome.text)

Qwen_generate_ollama(outcome) ==
    IF outcome.kind = "raise" THEN None
    ELSE IF outcome.kind = "none" THEN None
    ELSE Str(outcome.text)

Qwen_generate(cfg, outcome) ==
    IF cfg.use_local /\ cfg.ollama_client THEN Qwen_generate_ollama(outcome)
    ELSE IF cfg.client THEN Qwen_generate_dashscope(outcome)
    ELSE None

\* Qwen_generate_calls with one retry after a call that raised.
Qwen_generate_calls_retry(cfg, outcome) ==
    IF (cfg.use_local /\ cfg.ollama_client) \/ cfg.client
    THEN (IF outcome.kind = "raise" THEN 2 ELSE 1)
    ELSE 0

\* The number of provider requests one _generate issues (llm.py:165-203):
\* one in the branch taken, none without a client; no branch repeats it.
Qwen_generate_calls(cfg, outcome) ==
    IF cfg.use_local /\ cfg.ollama_client THEN 1
    ELSE IF cfg.client THEN 1
    ELSE 0

\* ... and one analyze_<domain>: _generate is called once (llm.py:73) and
\* the fallback generator is built with use_ai = False.
Qwen_analyze_calls(cfg, outcome) == Qwen_generate_calls(cfg, outcome)

\* Qwen_extract_zone with the red markers tested first.
Qwen_extract_zone_red_first(text) ==
    IF Contains(<<"RED_CIRCLE">>, text) \/ Contains(<<"K", "r", "a", "s", "n", "a", "ya">>, text)
       \/ Contains(<<"V", "y", "s", "o", "k", "i", "j">>, text)
    THEN "red"
    ELSE IF Contains(<<"YELLOW_CIRCLE">>, text) \/ Contains(<<"ZH", "yo", "l", "t", "a", "ya">>, text)
            \/ Contains(<<"S", "r", "e", "d", "n", "i", "j">>, text)
    THEN "yellow"
    ELSE IF Contains(<<"GREEN_CIRCLE">>, text) \/ Contains(<<"Z", "e", "l", "yo", "n", "a", "ya">>, text)
            \/ Contains(<<"N", "i", "z", "k", "i", "j">>, text)
    THEN "green"
    ELSE "unknown"

Qwen_extract_zone(text) ==
    IF Contains(<<"GREEN_CIRCLE">>, text) \/ Contains(<<"Z", "e", "l", "yo", "n", "a", "ya">>, text) \/ Contains(<<"N", "i", "z", "k", "i", "j">>, text)
    THEN "green"
    ELSE IF Contains(<<"YELLOW_CIRCLE">>, text) \/ Contains(<<"ZH", "yo", "l", "t", "a", "ya">>, text)
            \/ Contains(<<"S", "r", "e", "d", "n", "i", "j">>, text)
    THEN "yellow"
    ELSE IF Contains(<<"RED_CIRCLE">>, text) \/ Contains(<<"K", "r", "a", "s", "n", "a", "ya">>, text)
            \/ Contains(<<"V", "y", "s", "o", "k", "i", "j">>, text)
    THEN "red"
    ELSE "unknown"

Qwen_parse_debt_response(response) ==
    [verdict |-> response, zone |-> Qwen_extract_zone(response), ai_generated |-> TRUE]

Qwen_parse_market_response(response) ==
    [verdict |-> response, zone |-> Qwen_extract_zone(response), ai_generated |-> TRUE]

Qwen_parse_hiring_response(response) ==
    [verdict |-> response, risk_level |-> Qwen_extract_zone(response),
     ai_generated |-> TRUE]

Qwen_parse_import_response(response) ==
    [verdict |-> response, zone |-> Qwen_extract_zone(response), ai_generated |-> TRUE]

Qwen_parse_idea_response(response) ==
    [verdict |-> response, zone |-> Qwen_extract_zone(response), ai_generated |-> TRUE]

\* analyze_<domain> (llm.py:65-163).  The fallback constructs a new
\* generator (empty accumulator, use_ai = False) and analyzes with it.
Qwen_analyze_debt(cfg, data, outcome) ==
    LET response == Qwen_generate(cfg, outcome) IN
    IF Truthy(response) THEN Qwen_parse_debt_response(response.text)
    ELSE SetItem(Debt_rule_based(<<>>, data).ret, "ai_generated", FALSE)

Qwen_analyze_market(cfg, data, outcome) ==
    LET response == Qwen_generate(cfg, outcome) IN
    IF Truthy(response) THEN Qwen_parse_market_response(response.text)
    ELSE SetItem(Market_analyze(<<>>, data).ret, "ai_generated", FALSE)

Qwen_analyze_hiring(cfg, data, outcome) ==
    LET response == Qwen_generate(cfg, outcome) IN
    IF Truthy(response) THEN Qwen_parse_hiring_response(response.text)
    ELSE SetItem(Hiring_analyze(<<>>, data).ret, "ai_generated", FALSE)

Qwen_analyze_import(cfg, data, outcome) ==
    LET response == Qwen_generate(cfg, outcome) IN
    IF Truthy(response) THEN Qwen_parse_import_response(response.text)
    ELSE SetItem(Import_analyze(<<>>, data).ret, "ai_generated", FALSE)

Qwen_analyze_idea(cfg, data, outcome) ==
    LET response == Qwen_generate(cfg, outcome) IN
    IF Truthy(response) THEN Qwen_parse_idea_response(response.text)
    ELSE SetItem(Idea_analyze(<<>>, data).ret, "ai_generated", FALSE)

\* Debt_analyze without the try/except around the adapter call: the
\* adapter's exception leaves analyze.
Debt_analyze_no_except(rf, ai, cfg, data, outcome) ==
    IF ai /\ outcome.kind = "adapter_raise"
    THEN [ret |-> [exception |-> TRUE], risk_factors |-> rf]
    ELSE IF ai /\ Qwen_analyze_debt(cfg, data, outcome).ai_generated
    THEN [ret |-> Qwen_analyze_debt(cfg, data, outcome), risk_factors |-> rf]
    ELSE Debt_rule_based(rf, data)

\* DebtVerdictGenerator.analyze (debt.py:23-51).  outcome.kind =
\* "adapter_raise" is an analyzer whose analyze_debt raises (the analyzer is
\* injectable, debt.py:18-21); the except clause at debt.py:36 absorbs it.
Debt_analyze(rf, ai, cfg, data, outcome) ==
    LET rule == Debt_rule_based(rf, data) IN
    IF ai /\ outcome.kind # "adapter_raise"
          /\ Qwen_analyze_debt(cfg, data, outcome).ai_generated
    THEN [ret |-> Qwen_analyze_debt(cfg, data, outcome), risk_factors |-> rf]
    ELSE rule

\* The number of provider requests one DebtVerdictGenerator.analyze issues:
\* those of its one analyze_debt call (debt.py:33); an analyzer that raises
\* on entry issues none.
Debt_analyze_calls(ai, cfg, outcome) ==
    IF ai /\ outcome.kind # "adapter_raise" THEN Qwen_analyze_calls(cfg, outcome)
    ELSE 0

(***************************************************************************)
(* Inputs                                                                  *)
(***************************************************************************)

\* Marks a key that the answer set does not hold (not a str).
Absent == <<"ABSENT">>

\* The dict that maps keys[i] to vals[i] for every i with vals[i] # Absent.
MakeDict(keys, vals) ==
    LET present == {i \in 1..Len(keys) : vals[i] # Absent} IN
    [k \in {keys[i] : i \in present} |->
        vals[CHOOSE i \in present : keys[i] = k]]

Opt(values) == values \cup {Absent}

DebtKeys == <<"amount", "date", "debtor_type", "evidence", "contact_status">>
MarketKeys == <<"sales_volume", "competitors", "price">>
HiringKeys == <<"experience", "references", "probation", "salary">>
ImportKeys == <<"supplier_check", "payment_terms", "country", "batch_size">>
IdeaKeys ==
    <<"idea_description", "target_audience", "competition", "revenue_model",
      "investment">>

DebtAnswers ==
    {MakeDict(DebtKeys, <<a, d, t, e, c>>) :
        a \in Opt({<<>>, <<"5", "0", "0", "0", "0">>, <<"1", " ", "0", "0", "0", " ", "0", "0", "0">>, <<"6", "0", "0", "0", "0", "0", "0">>, <<"m", "n", "o", "g", "o">>}),
        d \in Opt({<<>>, <<"3", " ", "g", "o", "d", "a">>}),
        t \in Opt({<<>>, <<"N", "e", "i", "z", "v", "e", "s", "t", "n", "o">>}),
        e \in Opt({<<>>, <<"n", "e", "t">>}),
        c \in Opt({<<>>, <<"n", "e", "t">>})}

MarketAnswers ==
    {MakeDict(MarketKeys, <<s, c, p>>) :
        s \in Opt({<<>>, <<"0">>, <<"1", "0">>, <<"1", " ", "0", "0", "0">>, <<"m", "a", "l", "o">>}),
        c \in Opt({<<>>, <<"n", "e", " ", "z", "n", "a", "yu">>, <<"Z", "n", "a", "yu", " ", "v", "s", "e", "h">>}),
        p \in Opt({<<>>, <<"5", "0", "0", "0">>})}

HiringAnswers ==
    {MakeDict(HiringKeys, <<e, r, p, s>>) :
        e \in Opt({<<>>, <<"0">>, <<"B", "e", "z", " ", "o", "p", "y", "t", "a">>, <<"5", " ", "l", "e", "t">>}),
        r \in Opt({<<>>, <<"n", "e", "t">>, <<"e", "s", "t", "soft">>}),
        p \in Opt({<<>>, <<"n", "e", "t">>, <<"3", " ", "m", "e", "s", "ya", "c", "a">>}),
        s \in Opt({<<>>, <<"2", "0", "0", "0", "0", "0">>})}

ImportAnswers ==
    {MakeDict(ImportKeys, <<s, p, c, b>>) :
        s \in Opt({<<>>, <<"n", "e", " ", "p", "r", "o", "v", "e", "r", "ya", "l">>, <<"p", "r", "o", "v", "e", "r", "ya", "l">>}),
        p \in Opt({<<>>, <<"1", "0", "0", "%", " ", "p", "r", "e", "d", "o", "p", "l", "a",
                           "t", "a">>, <<"3", "0", "%", " ", "p", "r", "e", "d", "o", "p",
                                          "l", "a", "t", "a">>, <<"p", "o", " ", "f", "a", "k", "t", "u">>}),
        c \in Opt({<<>>, <<"K", "i", "t", "a", "j">>, <<"T", "u", "r", "c", "i", "ya">>}),
        b \in Opt({<<>>, <<"5", "0", "0", "0">>})}

IdeaAnswers ==
    {MakeDict(IdeaKeys, <<d, a, c, r, i>>) :
        d \in Opt({<<>>, <<"P", "r", "o", "d", "a", "v", "a", "t", "soft", " ", "o", "d", "e",
                           "zh", "d", "u", " ", "1", "9">>, <<"P", "r", "o", "d", "a", "v", "a", "t", "soft", " ",
                                          "o", "d", "e", "zh", "d", "u", " ", "0", "2", "0">>}),
        a \in Opt({<<>>, <<"n", "e", " ", "z", "n", "a", "yu">>, <<"s", "t", "u", "d", "e", "n", "t", "y", "9">>, <<"s", "t", "u", "d", "e", "n", "t", "y", "1", "0">>,
                   <<"n", "e", " ", "z", "n", "a", "yu", ",", " ", "k", "t", "o", " ", "k",
                     "u", "p", "i", "t">>}),
        c \in Opt({<<>>, <<"n", "e", " ", "z", "n", "a", "yu">>, <<"e", "s", "t", "soft", " ", "d", "v", "a">>}),
        r \in Opt({<<>>, <<"n", "a", "c", "e", "n", "k", "a">>, <<"p", "o", "d", "p", "i", "s", "k", "a", "1", "0">>}),
        i \in Opt({<<>>, <<"1", "0", "0", "0", "0", "0">>})}

\* Texts the provider returns.
AiTexts ==
    {<<>>, <<"GREEN_CIRCLE", " ", "R", "i", "s", "k", ":", " ", "N", "i", "z", "k", "i", "j">>, <<"RED_CIRCLE", " ", "K", "r", "a", "s", "n", "a", "ya", " ",
                                 "z", "o", "n", "a">>, <<"R", "i", "s", "k", ":", " ", "v", "y", "s", "o",
                                          "k", "i", "j">>}

NotCalled == [kind |-> "not_called", text |-> <<>>]

ProviderOutcomes ==
    {[kind |-> "raise", text |-> <<>>], [kind |-> "none", text |-> <<>>]}
        \cup {[kind |-> "text", text |-> t] : t \in AiTexts}

\* _generate reaches a provider call
HasGenerator(cfg) == (cfg.use_local /\ cfg.ollama_client) \/ cfg.client

\* What can happen to the provider during one analyze_<domain> call.
AdapterOutcomes(cfg) == IF HasGenerator(cfg) THEN ProviderOutcomes ELSE {NotCalled}

\* ... and during one DebtVerdictGenerator.analyze call.
DebtOutcomes(ai, cfg) ==
    IF ai THEN AdapterOutcomes(cfg) \cup {[kind |-> "adapter_raise", text |-> <<>>]}
    ELSE {NotCalled}

(***************************************************************************)
(* State machine.  One object is in use at a time: a domain generator or   *)
(* the adapter.  obj names its class, risk_factors is the generator's      *)
(* accumulator (self.risk_factors, self.issues, self.weak_points), use_ai  *)
(* the debt generator's flag, use_local / client / ollama_client the       *)
(* adapter's fields.  A call is one step from op = "idle" to op = the      *)
(* method called; answers, provider and result then hold the call's        *)
(* argument, what the provider did and the returned dict, until the caller *)
(* drops them (Discard).  provider_calls counts the provider requests the   *)
(* call issued, rendered is the text a generate_*_verdict function         *)
(* returned, reused records that the accumulator was not empty when the    *)
(* call began.                                                             *)
(***************************************************************************)

cfg == [use_local |-> use_local, client |-> client, ollama_client |-> ollama_client]

NoAdapter == [use_local |-> FALSE, client |-> FALSE, ollama_client |-> FALSE]

\* No call in progress and nothing returned.
NoCall ==
    /\ answers = <<>>
    /\ op = "idle"
    /\ provider = NotCalled
    /\ provider_calls = 0
    /\ result = <<>>
    /\ rendered = <<>>
    /\ reused = FALSE

\* The variables of SpecZone when that specification is not the one running.
ZoneIdle == ai_text = <<>> /\ ai_zone = "none"

\* The variables of SpecCheck when that specification is not the one running.
CheckIdle ==
    /\ chk_op = "none"
    /\ chk_text = <<>>
    /\ chk_other = <<>>
    /\ chk_out = <<>>
    /\ chk_zone = "none"
    /\ chk_raised = FALSE

\* The variables of SpecConc when that specification is not the one running.
ConcIdle ==
    /\ conc_domain = "none"
    /\ conc_heap = <<>>
    /\ conc_acc = <<>>
    /\ conc_inst = <<>>
    /\ conc_data = <<>>
    /\ conc_pc = <<>>
    /\ conc_verdict = <<>>
    /\ conc_ret = <<>>
    /\ conc_calls = 0

\* The variables of SpecSlang when that specification is not the one running.
SlangIdle ==
    /\ slang_dict = <<>>
    /\ slang_log = <<>>
    /\ slang_op = "none"
    /\ slang_text = <<>>
    /\ slang_once = <<>>
    /\ slang_twice = <<>>

\* No object constructed and no call made.
MainIdle ==
    /\ obj = "none"
    /\ use_ai = FALSE
    /\ risk_factors = <<>>
    /\ use_local = FALSE
    /\ client = FALSE
    /\ ollama_client = FALSE
    /\ NoCall

Init == MainIdle /\ ZoneIdle /\ CheckIdle /\ ConcIdle /\ SlangIdle

Construct(class, ai, c) ==
    /\ op = "idle"
    /\ obj' = class
    /\ use_ai' = ai
    /\ risk_factors' = <<>>
    /\ use_local' = c.use_local
    /\ client' = c.client
    /\ ollama_client' = c.ollama_client
    /\ UNCHANGED <<answers, op, provider, provider_calls, result, rendered, reused,
                   outside_main>>

NewQwenAnalyzer ==
    \E api_key, local, has_dashscope, has_ollama \in BOOLEAN :
        Construct("qwen", FALSE, Qwen_init(api_key, local, has_dashscope, has_ollama))

NewDebtVerdictGenerator ==
    \E ai, api_key, local, has_dashscope, has_ollama \in BOOLEAN :
        Construct("debt", ai, Qwen_init(api_key, local, has_dashscope, has_ollama))

NewMarketVerdictGenerator == Construct("market", FALSE, NoAdapter)

NewHiringVerdictGenerator == Construct("hiring", FALSE, NoAdapter)

NewImportVerdictGenerator == Construct("import", FALSE, NoAdapter)

NewIdeaVerdictGenerator == Construct("idea", FALSE, NoAdapter)

\* A call of a generator's analyze: r is [ret, risk_factors].
Returns(name, data, outcome, calls, r) ==
    /\ op' = name
    /\ answers' = data
    /\ provider' = outcome
    /\ provider_calls' = calls
    /\ result' = r.ret
    /\ risk_factors' = r.risk_factors
    /\ reused' = (risk_factors # <<>>)
    /\ UNCHANGED <<obj, use_ai, use_local, client, ollama_client, rendered,
                   outside_main>>

DebtAnalyze ==
    /\ obj = "debt" /\ op = "idle"
    /\ \E data \in DebtAnswers, outcome \in DebtOutcomes(use_ai, cfg) :
          Returns("Debt.analyze", data, outcome,
                  Debt_analyze_calls(use_ai, cfg, outcome),
                  Debt_analyze(risk_factors, use_ai, cfg, data, outcome))

MarketAnalyze ==
    /\ obj = "market" /\ op = "idle"
    /\ \E data \in MarketAnswers :
          Returns("Market.analyze", data, NotCalled, 0,
                  Market_analyze(risk_factors, data))

HiringAnalyze ==
    /\ obj = "hiring" /\ op = "idle"
    /\ \E data \in HiringAnswers :
          Returns("Hiring.analyze", data, NotCalled, 0,
                  Hiring_analyze(risk_factors, data))

ImportAnalyze ==
    /\ obj = "import" /\ op = "idle"
    /\ \E data \in ImportAnswers :
          Returns("Import.analyze", data, NotCalled, 0,
                  Import_analyze(risk_factors, data))

IdeaAnalyze ==
    /\ obj = "idea" /\ op = "idle"
    /\ \E data \in IdeaAnswers :
          Returns("Idea.analyze", data, NotCalled, 0,
                  Idea_analyze(risk_factors, data))

\* A call of the adapter's analyze_<domain>: ret is the returned dict.
AdapterReturns(name, data, outcome, ret) ==
    /\ op' = name
    /\ answers' = data
    /\ provider' = outcome
    /\ provider_calls' = Qwen_analyze_calls(cfg, outcome)
    /\ result' = ret
    /\ UNCHANGED <<obj, use_ai, risk_factors, use_local, client, ollama_client,
                   rendered, reused, outside_main>>

QwenAnalyzeDebt ==
    /\ obj = "qwen" /\ op = "idle"
    /\ \E data \in DebtAnswers, outcome \in AdapterOutcomes(cfg) :
          AdapterReturns("Qwen.analyze_debt", data, outcome,
                         Qwen_analyze_debt(cfg, data, outcome))

QwenAnalyzeMarket ==
    /\ obj = "qwen" /\ op = "idle"
    /\ \E data \in MarketAnswers, outcome \in AdapterOutcomes(cfg) :
          AdapterReturns("Qwen.analyze_market", data, outcome,
                         Qwen_analyze_market(cfg, data, outcome))

QwenAnalyzeHiring ==
    /\ obj = "qwen" /\ op = "idle"
    /\ \E data \in HiringAnswers, outcome \in AdapterOutcomes(cfg) :
          AdapterReturns("Qwen.analyze_hiring", data, outcome,
                         Qwen_analyze_hiring(cfg, data, outcome))

QwenAnalyzeImport ==
    /\ obj = "qwen" /\ op = "idle"
    /\ \E data \in ImportAnswers, outcome \in AdapterOutcomes(cfg) :
          AdapterReturns("Qwen.analyze_import", data, outcome,
                         Qwen_analyze_import(cfg, data, outcome))

QwenAnalyzeIdea ==
    /\ obj = "qwen" /\ op = "idle"
    /\ \E data \in IdeaAnswers, outcome \in AdapterOutcomes(cfg) :
          AdapterReturns("Qwen.analyze_idea", data, outcome,
                         Qwen_analyze_idea(cfg, data, outcome))

\* The caller is done with the answer set and the returned dict.
Discard ==
    /\ op # "idle"
    /\ op' = "idle"
    /\ answers' = <<>>
    /\ provider' = NotCalled
    /\ result' = <<>>
    /\ provider_calls' = 0
    /\ rendered' = <<>>
    /\ reused' = FALSE
    /\ UNCHANGED <<obj, use_ai, risk_factors, use_local, client, ollama_client,
                   outside_main>>

Next ==
    \/ NewQwenAnalyzer
    \/ NewDebtVerdictGenerator
    \/ NewMarketVerdictGenerator
    \/ NewHiringVerdictGenerator
    \/ NewImportVerdictGenerator
    \/ NewIdeaVerdictGenerator
    \/ DebtAnalyze
    \/ MarketAnalyze
    \/ HiringAnalyze
    \/ ImportAnalyze
    \/ IdeaAnalyze
    \/ QwenAnalyzeDebt
    \/ QwenAnalyzeMarket
    \/ QwenAnalyzeHiring
    \/ QwenAnalyzeImport
    \/ QwenAnalyzeIdea
    \/ Discard

Spec == Init /\ [][Next]_vars

(***************************************************************************)
(* SpecZone: _extract_zone as a function of the provider's text.  Init     *)
(* draws the text, ExtractZone applies the function.                       *)
(***************************************************************************)

MaxParts == 2

GreenMarkers == {<<"GREEN_CIRCLE">>, <<"Z", "e", "l", "yo", "n", "a", "ya">>, <<"N", "i", "z", "k", "i", "j">>}
YellowMarkers == {<<"YELLOW_CIRCLE">>, <<"ZH", "yo", "l", "t", "a", "ya">>, <<"S", "r", "e", "d", "n", "i", "j">>}
RedMarkers == {<<"RED_CIRCLE">>, <<"K", "r", "a", "s", "n", "a", "ya">>, <<"V", "y", "s", "o", "k", "i", "j">>}

\* Pieces of provider text: the markers, a marker in lower case, a marker
\* cut in two, and filler.
Pieces ==
    GreenMarkers \cup YellowMarkers \cup RedMarkers
        \cup {<<"z", "e", "l", "yo", "n", "a", "ya">>, <<"K", "r", "a", "s">>, <<"n", "a", "ya">>, <<" ", "z", "o", "n", "a", ":", " ">>}

RECURSIVE Concat(_)
Concat(parts) ==
    IF parts = <<>> THEN <<>> ELSE Head(parts) \o Concat(Tail(parts))

ZoneTexts == {Concat(parts) : parts \in UNION {[1..n -> Pieces] : n \in 0..MaxParts}}

InitZone ==
    /\ obj = "qwen"
    /\ use_ai = FALSE
    /\ risk_factors = <<>>
    /\ use_local = FALSE
    /\ client = FALSE
    /\ ollama_client = FALSE
    /\ NoCall
    /\ CheckIdle
    /\ ConcIdle
    /\ SlangIdle
    /\ ai_text \in ZoneTexts
    /\ ai_zone = "none"

ExtractZone ==
    /\ ai_zone = "none"
    /\ ai_zone' = Qwen_extract_zone(ai_text)
    /\ UNCHANGED <<ai_text, outside_zone>>

NextZone == ExtractZone

SpecZone == InitZone /\ [][NextZone]_vars

(***************************************************************************)
(* Properties                                                              *)
(***************************************************************************)

AnalyzeOps ==
    {"Debt.analyze", "Market.analyze", "Hiring.analyze", "Import.analyze",
     "Idea.analyze"}

AdapterOps ==
    {"Qwen.analyze_debt", "Qwen.analyze_market", "Qwen.analyze_hiring",
     "Qwen.analyze_import", "Qwen.analyze_idea"}

\* The domain a method belongs to.
DomainOf(o) ==
    CASE o \in {"Debt.analyze", "Qwen.analyze_debt"} -> "debt"
      [] o \in {"Market.analyze", "Qwen.analyze_market"} -> "market"
      [] o \in {"Hiring.analyze", "Qwen.analyze_hiring"} -> "hiring"
      [] o \in {"Import.analyze", "Qwen.analyze_import"} -> "import"
      [] o \in {"Idea.analyze", "Qwen.analyze_idea"} -> "idea"
      [] OTHER -> "none"

KeysOf(domain) ==
    LET keys == CASE domain = "debt" -> DebtKeys
                  [] domain = "market" -> MarketKeys
                  [] domain = "hiring" -> HiringKeys
                  [] domain = "import" -> ImportKeys
                  [] domain = "idea" -> IdeaKeys
    IN  {keys[i] : i \in 1..Len(keys)}

\* Origin, tier and signal sequence of a returned dict.
IsAI(r) == "ai_generated" \in DOMAIN r /\ r.ai_generated
Tier(r) == IF "risk_level" \in DOMAIN r THEN r.risk_level ELSE r.zone
Signals(r) ==
    IF "issues" \in DOMAIN r THEN r.issues
    ELSE IF "weak_points" \in DOMAIN r THEN r.weak_points
    ELSE r.risk_factors

\* What analyze(data) returns on a newly constructed generator of the domain.
Fresh(domain, data) ==
    CASE domain = "debt" -> Debt_rule_based(<<>>, data).ret
      [] domain = "market" -> Market_analyze(<<>>, data).ret
      [] domain = "hiring" -> Hiring_analyze(<<>>, data).ret
      [] domain = "import" -> Import_analyze(<<>>, data).ret
      [] domain = "idea" -> Idea_analyze(<<>>, data).ret

\* A rule-based verdict was returned by a generator's analyze.
RuleBasedReturned == op \in AnalyzeOps /\ ~IsAI(result)

BestTier(domain) == IF domain = "hiring" THEN "low" ELSE "green"

AllAbsent(data) == DOMAIN data = {}
AllEmpty(data, keys) == DOMAIN data = keys /\ \A k \in keys : data[k] = <<>>

\* C1: for each of the five domain analyzers, analyze() on an answer set
\* whose fields are all absent, and on one whose fields are all the empty
\* string, returns zero signals and the best tier (green; low for hiring).
C1_EmptyAnswersGiveBestTier ==
    (RuleBasedReturned
     /\ (AllAbsent(answers) \/ AllEmpty(answers, KeysOf(DomainOf(op)))))
    => (Signals(result) = <<>> /\ Tier(result) = BestTier(DomainOf(op)))

\* C2: for every domain analyzer and every answer set, an absent key is
\* treated exactly like that key mapped to the empty string: analyze()
\* returns the same signals and the same tier for the two answer sets.
C2_AbsentKeyIsEmptyString ==
    RuleBasedReturned
    => \A k \in KeysOf(DomainOf(op)) \ DOMAIN answers :
          LET other == Fresh(DomainOf(op), SetItem(answers, k, <<>>)) IN
          Signals(other) = Signals(result) /\ Tier(other) = Tier(result)

\* 0 -> green, 1 or 2 -> yellow, 3 or more -> red
ThreeTier(n) == IF n = 0 THEN "green" ELSE IF n <= 2 THEN "yellow" ELSE "red"

DebtSpecExample ==
    MakeDict(DebtKeys, <<<<"6", "0", "0", "0", "0", "0", "0">>, <<"3", " ", "g", "o", "d", "a">>, <<"N", "e", "i", "z", "v", "e", "s", "t", "n", "o">>, <<"n", "e", "t">>, <<"n", "e", "t">>>>)

\* C3: in every rule-based verdict of the debt, import and idea analyzers
\* the zone is green for 0 signals, yellow for 1 or 2 and red for 3 or more
\* signals of that same verdict; the debt answer set amount 6000000, date
\* "3 goda", debtor_type "Neizvestno", evidence "net", contact_status "net"
\* gives red with at least 3 signals.
C3_ZoneBySignalCount ==
    (op # "idle" /\ DomainOf(op) \in {"debt", "import", "idea"} /\ ~IsAI(result))
    => /\ result.zone = ThreeTier(Len(Signals(result)))
       /\ (DomainOf(op) = "debt" /\ answers = DebtSpecExample)
          => (result.zone = "red" /\ Len(Signals(result)) >= 3)

C3_Witness ==
    /\ op = "Debt.analyze" /\ ~IsAI(result)
    /\ answers = DebtSpecExample
    /\ result.zone = "red"

MarketSpecExample == MakeDict(MarketKeys, <<<<"0">>, <<"n", "e", " ", "z", "n", "a", "yu">>, Absent>>)

\* C4: in every verdict of the market analyzer the zone is green for 0
\* issues, yellow for exactly 1 and red for 2 or more; sales_volume "0"
\* together with competitors "ne znayu" gives red.
C4_MarketZoneByIssueCount ==
    (op # "idle" /\ DomainOf(op) = "market" /\ ~IsAI(result))
    => /\ result.zone = (IF Len(result.issues) = 0 THEN "green"
                         ELSE IF Len(result.issues) = 1 THEN "yellow" ELSE "red")
       /\ answers = MarketSpecExample => result.zone = "red"

C4_Witness ==
    /\ op = "Market.analyze"
    /\ answers = MarketSpecExample
    /\ Len(result.issues) = 2 /\ result.zone = "red"

HiringSpecExample == MakeDict(HiringKeys, <<<<"0">>, <<"n", "e", "t">>, <<"n", "e", "t">>, Absent>>)

\* C5: in every rule-based verdict of the hiring analyzer the risk level is
\* low for 0 risk factors, medium for 1 or 2 and high for 3 or more;
\* experience "0", references "net", probation "net" gives high.
C5_HiringLevelByFactorCount ==
    (op # "idle" /\ DomainOf(op) = "hiring" /\ ~IsAI(result))
    => /\ result.risk_level =
            (IF Len(result.risk_factors) = 0 THEN "low"
             ELSE IF Len(result.risk_factors) <= 2 THEN "medium" ELSE "high")
       /\ answers = HiringSpecExample => result.risk_level = "high"

C5_Witness ==
    /\ op = "Hiring.analyze"
    /\ answers = HiringSpecExample
    /\ Len(result.risk_factors) = 3 /\ result.risk_level = "high"

\* What analyze(data) returns on a newly constructed generator of the object's
\* class and configuration when the provider behaves the same way.
FreshSame(data, outcome) ==
    IF obj = "debt" THEN Debt_analyze(<<>>, use_ai, cfg, data, outcome).ret
    ELSE Fresh(obj, data)

\* C6: the verdict returned by each analyze() call on an analyzer instance
\* equals the verdict a newly constructed instance returns for that call's
\* input, whatever calls the instance served before (no signal of an earlier
\* call appears in a later verdict).
C6_CallEqualsFreshInstance ==
    op \in AnalyzeOps => result = FreshSame(answers, provider)

\* A call on an instance whose accumulator held signals returned none.
C6_Witness ==
    /\ op = "Debt.analyze" /\ ~IsAI(result)
    /\ reused
    /\ result.risk_factors = <<>>

\* The provider yielded no usable text: no client configured, the provider
\* call raised, or the response was None or empty.
NoUsableText ==
    \/ provider.kind \in {"not_called", "raise", "none"}
    \/ (provider.kind = "text" /\ provider.text = <<>>)

\* C7: for each domain, when the provider yields no usable text the
\* adapter's analyze_<domain>(answers) returns a verdict marked not
\* AI-generated whose tier equals the tier the domain analyzer returns for
\* the same answers.
C7_AdapterFallback ==
    (op \in AdapterOps /\ NoUsableText)
    => /\ "ai_generated" \in DOMAIN result
       /\ result.ai_generated = FALSE
       /\ Tier(result) = Tier(Fresh(DomainOf(op), answers))

C7_Witness ==
    /\ op = "Qwen.analyze_hiring"
    /\ provider = [kind |-> "text", text |-> <<>>]
    /\ result.ai_generated = FALSE
    /\ result.risk_level = "high"

\* C8: DebtVerdictGenerator.analyze with AI enabled always returns a verdict
\* (no exception reaches the caller), and when the adapter call raises or
\* returns a result not marked AI-generated the returned verdict is the
\* rule-based one with origin rule-based.
C8_DebtAbsorbsAIFailure ==
    (op = "Debt.analyze" /\ use_ai)
    => /\ "exception" \notin DOMAIN result
       /\ {"verdict", "zone", "ai_generated"} \subseteq DOMAIN result
       /\ (provider.kind = "adapter_raise" \/ NoUsableText)
          => (result = Fresh("debt", answers) /\ result.ai_generated = FALSE)

C8_Witness ==
    /\ op = "Debt.analyze" /\ use_ai
    /\ provider.kind = "adapter_raise"
    /\ result.ai_generated = FALSE
    /\ result.zone = "red"

HasAny(markers, t) == \E m \in markers : Contains(m, t)

\* C9: zone inference from AI text checks markers in a fixed order and the
\* first match wins: any green/low marker gives green even if yellow or red
\* markers are also present, otherwise any yellow/medium marker gives
\* yellow, otherwise any red/high marker gives red, and text with no marker
\* gives "unknown" (never green).
C9_ZoneMarkerPrecedence ==
    ai_zone # "none"
    => ai_zone = (IF HasAny(GreenMarkers, ai_text) THEN "green"
               ELSE IF HasAny(YellowMarkers, ai_text) THEN "yellow"
               ELSE IF HasAny(RedMarkers, ai_text) THEN "red"
               ELSE "unknown")

\* Green was inferred from a text that also holds a red marker.
C9_Witness ==
    /\ ai_zone = "green"
    /\ HasAny(RedMarkers, ai_text)
    /\ HasAny(GreenMarkers, ai_text)

\* C10: whatever its origin, a verdict's tier is one of green, yellow, red
\* for debt, market, import and idea and one of low, medium, high for
\* hiring; the only other value is "unknown" for AI text with no marker.
C10_TierVocabulary ==
    op # "idle"
    => \/ Tier(result) \in (IF DomainOf(op) = "hiring" THEN {"low", "medium", "high"}
                            ELSE {"green", "yellow", "red"})
       \/ /\ Tier(result) = "unknown"
          /\ IsAI(result)
          /\ ~HasAny(GreenMarkers \cup YellowMarkers \cup RedMarkers, provider.text)

\* The fields of the Verdict structure a returned dict holds.
HasTier(r) == "zone" \in DOMAIN r \/ "risk_level" \in DOMAIN r
HasSignals(r) ==
    "issues" \in DOMAIN r \/ "weak_points" \in DOMAIN r \/ "risk_factors" \in DOMAIN r
HasAllFields(r) ==
    /\ HasTier(r)
    /\ "verdict" \in DOMAIN r
    /\ HasSignals(r)
    /\ "recommendation" \in DOMAIN r
    /\ "ai_generated" \in DOMAIN r

\* C11: every verdict returned by a domain analyzer's analyze() or by an
\* adapter analyze_<domain>() carries the tier, the headline text, the
\* ordered signal sequence, the recommendation text and the origin flag.
C11_VerdictHasAllFields == op # "idle" => HasAllFields(result)

(***************************************************************************)
(* The numeric checks on every short answer text: InitCheck draws the      *)
(* numeric answer and the other answers, CheckDebtAmount and               *)
(* CheckMarketSales run the domain's checks on a new accumulator with the  *)
(* drawn text as `amount` (`sales_volume`).  chk_out is the accumulator    *)
(* after the last check, chk_zone the tier _generate_verdict gives it,     *)
(* chk_raised whether the numeric check raised.                            *)
(***************************************************************************)

MaxNumLen == 3

\* Digits, the separators the checks strip, a dot, a sign and a letter.
NumChars == {"0", "7", " ", ",", ".", "-", "m"}

NumericTexts == UNION {[1..n -> NumChars] : n \in 0..MaxNumLen}

\* Amounts below, within and above the range 100000..5000000, with the
\* separators the check strips and with a fraction.
AmountsBelow == {<<"5", "0", "0", "0", "0">>, <<"9", "9", "9", "9", "9">>, <<"9", "9", "9", "9", "9", ".", "9">>, <<"-", "1">>}
AmountsWithin == {<<"1", "0", "0", "0", "0", "0">>, <<"1", "0", "0", " ", "0", "0", "0">>, <<"1", "0", "0", "0", "0", "0", ".", "0">>, <<"5", "0", "0", "0", "0", "0", "0">>, <<"5", ",", "0", "0", "0", ",", "0", "0", "0">>}
AmountsAbove == {<<"5", "0", "0", "0", "0", "0", "1">>, <<"5", "0", "0", "0", "0", "0", "0", ".", "5">>, <<"6", "0", "0", "0", "0", "0", "0">>}
BoundaryAmounts == AmountsBelow \cup AmountsWithin \cup AmountsAbove

\* Dates with a year marker, a month marker, both in either order, none.
DebtDates ==
    {Absent, <<"3", " ", "g", "o", "d", "a">>, <<"6", " ", "m", "e", "s", "ya", "c", "e", "v">>, <<"1", " ", "G", "O", "D", " ", "2", " ", "m", "e",
                                          "s", "ya", "c", "a">>, <<"2", " ", "m", "e", "s", "ya", "c", "a", " ", "5",
                                          " ", "l", "e", "t">>,
     <<"v", "ch", "e", "r", "a">>}

DebtOthers ==
    {MakeDict(<<"date", "debtor_type", "evidence", "contact_status">>, <<d, t, e, c>>) :
        d \in DebtDates, t \in {Absent}, e \in {Absent, <<"n", "e", "t">>},
        c \in {Absent}}
    \cup {MakeDict(<<"date", "debtor_type", "evidence", "contact_status">>,
                   <<<<"3", " ", "g", "o", "d", "a">>, <<"N", "e", "i", "z", "v", "e", "s", "t", "n", "o">>, <<"n", "e", "t">>, <<"n", "e", "t">>>>)}

MarketOthers ==
    {MakeDict(<<"competitors", "price">>, <<c, p>>) :
        c \in {<<"n", "e", " ", "z", "n", "a", "yu">>, <<"Z", "n", "a", "yu", " ", "v", "s", "e", "h">>}, p \in {<<"5", "0", "0", "0">>}}

InitCheck ==
    /\ MainIdle
    /\ ZoneIdle
    /\ ConcIdle
    /\ SlangIdle
    /\ chk_op = "none"
    /\ chk_text \in NumericTexts \cup BoundaryAmounts
    /\ chk_other \in DebtOthers \cup MarketOthers
    /\ chk_out = <<>>
    /\ chk_zone = "none"
    /\ chk_raised = FALSE

CheckDebtAmount ==
    /\ chk_op = "none"
    /\ chk_other \in DebtOthers
    /\ chk_op' = "Debt._analyze_amount"
    /\ chk_raised' = Debt_analyze_amount_raises(chk_text)
    /\ chk_out' = Debt_analyze_all(Debt_reset(<<>>), SetItem(chk_other, "amount", chk_text))
    /\ chk_zone' = Debt_generate_verdict(chk_out').zone
    /\ UNCHANGED <<chk_text, chk_other, outside_check>>

CheckMarketSales ==
    /\ chk_op = "none"
    /\ chk_other \in MarketOthers
    /\ chk_op' = "Market._analyze_sales"
    /\ chk_raised' = Market_analyze_sales_raises(chk_text)
    /\ chk_out' = Market_analyze(<<>>, SetItem(chk_other, "sales_volume", chk_text)).risk_factors
    /\ chk_zone' = Market_analyze(<<>>, SetItem(chk_other, "sales_volume", chk_text)).ret.zone
    /\ UNCHANGED <<chk_text, chk_other, outside_check>>

NextCheck == CheckDebtAmount \/ CheckMarketSales

SpecCheck == InitCheck /\ [][NextCheck]_vars

\* A text that is no number, told from its characters once the blanks and
\* commas are removed: a letter, no digit, a sign after the first
\* character, more than one dot (float) or any dot (int).
Stripped(s) == RemoveChar(RemoveChar(s, " "), ",")
Count(c, s) == Cardinality({i \in 1..Len(s) : s[i] = c})
MalformedFloat(s) ==
    LET t == Stripped(s) IN
    \/ Count("m", t) > 0
    \/ \A i \in 1..Len(t) : t[i] \notin Digits
    \/ \E i \in 2..Len(t) : t[i] = "-"
    \/ Count(".", t) > 1
MalformedInt(s) == MalformedFloat(s) \/ Count(".", Stripped(s)) > 0

\* The signals of the checks other than the numeric one, in check order.
DebtOtherSignals(data) ==
    Debt_analyze_contact(
        Debt_analyze_evidence(
            Debt_analyze_debtor_type(
                Debt_analyze_date(<<>>, Get(data, "date", <<>>)),
                Get(data, "debtor_type", <<>>)),
            Get(data, "evidence", <<>>)),
        Get(data, "contact_status", <<>>))
MarketOtherSignals(data) ==
    Market_analyze_price(
        Market_analyze_competitors(<<>>, Get(data, "competitors", <<>>)),
        Get(data, "price", <<>>))

\* C12: a malformed numeric answer never raises and never adds a signal:
\* the debt amount check on a text that is no number and the market sales
\* check on a text that is no integer leave the accumulator with exactly
\* the signals of the other checks.
C12_MalformedNumberAddsNothing ==
    /\ (chk_op = "Debt._analyze_amount" /\ MalformedFloat(chk_text))
       => ~chk_raised /\ chk_out = DebtOtherSignals(chk_other)
    /\ (chk_op = "Market._analyze_sales" /\ MalformedInt(chk_text))
       => ~chk_raised /\ chk_out = MarketOtherSignals(chk_other)

\* A letter after a digit as debt amount, with four signals from the
\* other checks.
C12_Witness ==
    /\ chk_op = "Debt._analyze_amount"
    /\ chk_text = <<"7", "m">>
    /\ MalformedFloat(chk_text)
    /\ Len(chk_out) = 4
    /\ ~chk_raised

\* The signals each check of a domain can append, in the order the spec
\* lists the checks.
CheckOrder(domain) ==
    CASE domain = "debt" ->
           <<{<<"S", "u", "m", "m", "a", " ", "n", "e", "b", "o", "l", "soft", "sh", "a", "ya",
                " ", "--", " ", "s", "t", "o", "i", "t", " ", "l", "i", " ", "t", "r", "a",
                "t", "i", "t", "soft", " ", "v", "r", "e", "m", "ya", "?">>,
              <<"K", "r", "u", "p", "n", "a", "ya", " ", "s", "u", "m", "m", "a", " ", "--",
                " ", "r", "e", "k", "o", "m", "e", "n", "d", "u", "yu", " ", "yu", "r", "i",
                "s", "t", "a", ".">>},
             {<<"D", "o", "l", "g", " ", "s", "t", "a", "r", "y", "j", " ", "--", " ", "v",
                "y", "s", "o", "k", "i", "j", " ", "r", "i", "s", "k", " ", "n", "e", "v", "o",
                "z", "v", "r", "a", "t", "a", ".">>,
              <<"S", "r", "o", "k", " ", "s", "r", "e", "d", "n", "i", "j", " ", "--", " ",
                "e", "shch", "yo", " ", "m", "o", "zh", "n", "o", " ", "v", "e", "r", "n", "u",
                "t", "soft", ".">>},
             {<<"D", "o", "l", "zh", "n", "i", "k", " ", "i", "s", "ch", "e", "z", " ", "--",
                " ", "eh", "t", "o", " ", "p", "l", "o", "h", "o", "j", " ", "z", "n", "a",
                "k", ".">>,
              <<"S", " ", "f", "i", "z", "l", "i", "c", " ", "v", "z", "y", "s", "k", "a", "t",
                "soft", " ", "s", "l", "o", "zh", "n", "e", "e", ",", " ", "ch", "e", "m", " ",
                "s", " ", "yu", "r", "l", "i", "c", ".">>},
             {<<"N", "e", "t", " ", "d", "o", "k", "a", "z", "a", "t", "e", "l", "soft", "s",
                "t", "v", " ", "--", " ", "p", "o", "z", "i", "c", "i", "ya", " ", "s", "l",
                "a", "b", "a", "ya", ".">>},
             {<<"N", "e", " ", "v", "y", "h", "o", "d", "i", "t", " ", "n", "a", " ", "s", "v",
                "ya", "z", "soft", " ", "--", " ", "g", "o", "t", "o", "v", "soft", "t", "e",
                "s", "soft", " ", "k", " ", "s", "u", "d", "u", ".">>}>>
      [] domain = "hiring" ->
           <<{<<"CROSS", " ", "N", "e", "t", " ", "o", "p", "y", "t", "a", " ", "--", " ", "v",
                "y", "s", "o", "k", "i", "j", " ", "r", "i", "s", "k", " ", "o", "sh", "i",
                "b", "o", "k">>},
             {<<"CROSS", " ", "N", "e", "t", " ", "r", "e", "k", "o", "m", "e", "n", "d", "a",
                "c", "i", "j", " ", "--", " ", "k", "r", "a", "s", "n", "y", "j", " ", "f",
                "l", "a", "g">>},
             {<<"WARN", "VS16", " ", "N", "e", "t", " ", "i", "s", "p", "y", "t", "a", "t",
                "e", "l", "soft", "n", "o", "g", "o", " ", "s", "r", "o", "k", "a", " ", "--",
                " ", "r", "i", "s", "k", " ", "o", "sh", "i", "b", "k", "i", " ", "p", "r",
                "i", " ", "n", "a", "j", "m", "e">>}>>
      [] domain = "import" ->
           <<{<<"RED_CIRCLE", " ", "N", "e", " ", "p", "r", "o", "v", "e", "r", "ya", "l", " ",
                "p", "o", "s", "t", "a", "v", "shch", "i", "k", "a", " ", "--", " ", "9", "0",
                "%", " ", "p", "r", "o", "b", "l", "e", "m", " ", "o", "t", " ", "eh", "t",
                "o", "g", "o">>},
             {<<"RED_CIRCLE", " ", "1", "0", "0", "%", " ", "p", "r", "e", "d", "o", "p", "l",
                "a", "t", "a", " ", "--", " ", "m", "a", "k", "s", "i", "m", "a", "l", "soft",
                "n", "y", "j", " ", "r", "i", "s", "k">>},
             {<<"WARN", "VS16", " ", "K", "i", "t", "a", "j", " ", "--", " ", "d", "o", "l",
                "g", "a", "ya", " ", "d", "o", "s", "t", "a", "v", "k", "a", ",", " ", "v",
                "o", "z", "m", "o", "zh", "e", "n", " ", "b", "r", "a", "k">>}>>
      [] domain = "idea" ->
           <<{<<"CROSS", " ", "I", "d", "e", "ya", " ", "o", "p", "i", "s", "a", "n", "a", " ",
                "s", "l", "i", "sh", "k", "o", "m", " ", "k", "r", "a", "t", "k", "o">>},
             {<<"CROSS", " ", "K", "l", "i", "e", "n", "t", " ", "n", "e", " ", "o", "p", "r",
                "e", "d", "e", "l", "yo", "n">>},
             {<<"CROSS", " ", "K", "o", "n", "k", "u", "r", "e", "n", "t", "o", "v", " ", "n",
                "e", " ", "i", "z", "u", "ch", "a", "l">>},
             {<<"CROSS", " ", "M", "o", "d", "e", "l", "soft", " ", "d", "o", "h", "o", "d",
                "a", " ", "n", "e", "ya", "s", "n", "a">>}>>
      [] domain = "market" ->
           <<{<<"CROSS", " ", "P", "r", "o", "d", "a", "zh", " ", "n", "e", "t", " ", "--",
                " ", "p", "r", "o", "b", "l", "e", "m", "a", " ", "m", "o", "zh", "e", "t",
                " ", "b", "y", "t", "soft", " ", "v", " ", "c", "e", "n", "e", " ", "i", "l",
                "i", " ", "k", "a", "n", "a", "l", "e">>},
             {<<"CROSS", " ", "K", "o", "n", "k", "u", "r", "e", "n", "t", "o", "v", " ", "n",
                "e", " ", "i", "z", "u", "ch", "i", "l", " ", "--", " ", "n", "e", " ", "m",
                "o", "zh", "e", "sh", "soft", " ", "p", "o", "z", "i", "c", "i", "o", "n", "i",
                "r", "o", "v", "a", "t", "soft", "s", "ya">>}>>

\* The position of the check a signal comes from; 0 for a text no check of
\* the domain appends.
CheckOf(domain, signal) ==
    LET order == CheckOrder(domain)
        from  == {i \in 1..Len(order) : signal \in order[i]}
    IN  IF from = {} THEN 0 ELSE CHOOSE i \in from : TRUE

\* Every signal comes from a check, and a later signal from a later check.
InCheckOrder(domain, signals) ==
    /\ \A i \in 1..Len(signals) : CheckOf(domain, signals[i]) > 0
    /\ \A i, j \in 1..Len(signals) :
          i < j => CheckOf(domain, signals[i]) < CheckOf(domain, signals[j])

\* C13: within one analyze() call each check appends zero or one signal and
\* the signals of the verdict appear in the fixed check order of the domain,
\* whatever the answer set (a mapping from keys, without an order of keys).
C13_SignalsInCheckOrder ==
    (op # "idle" /\ HasSignals(result))
    => InCheckOrder(DomainOf(op), Signals(result))

\* Debt with a signal from each of its five checks.
C13_Witness ==
    /\ op = "Debt.analyze"
    /\ Len(Signals(result)) = 5
    /\ \A i \in 1..5 : CheckOf("debt", Signals(result)[i]) = i

\* The answer a domain's placeholder check reads, and values to put there:
\* absent, empty, numbers and texts that other checks react to.
PlaceholderKey(domain) ==
    CASE domain = "market" -> "price"
      [] domain = "hiring" -> "salary"
      [] domain = "import" -> "batch_size"
      [] domain = "idea" -> "investment"

PlaceholderValues == {Absent, <<>>, <<"0">>, <<"5", "0", "0", "0">>, <<"n", "e", " ", "z", "n", "a", "yu">>, <<"n", "e", "t">>}

WithAnswer(data, key, value) ==
    IF value = Absent THEN [k \in DOMAIN data \ {key} |-> data[k]]
    ELSE SetItem(data, key, value)

\* The rule-based verdict method o returns on data: the generator's dict,
\* from the adapter with the origin flag added.
RuleBasedOf(o, data) ==
    IF o \in AdapterOps THEN SetItem(Fresh(DomainOf(o), data), "ai_generated", FALSE)
    ELSE Fresh(DomainOf(o), data)

\* C14: the placeholder checks are no-ops: an answer set that differs from
\* the analyzed one only in market price, hiring salary, import batch_size
\* or idea investment gets the identical verdict (signals, tier, headline
\* and recommendation).
C14_PlaceholderChecksAreNoOps ==
    (op # "idle" /\ DomainOf(op) # "debt" /\ ~IsAI(result))
    => \A value \in PlaceholderValues :
          RuleBasedOf(op, WithAnswer(answers, PlaceholderKey(DomainOf(op)), value))
              = result

\* A market verdict with two issues for a price of 5000, which is also the
\* verdict without a price.
C14_Witness ==
    /\ op = "Market.analyze"
    /\ "price" \in DOMAIN answers
    /\ answers["price"] = <<"5", "0", "0", "0">>
    /\ Len(result.issues) = 2
    /\ RuleBasedOf(op, WithAnswer(answers, "price", Absent)) = result

\* For each domain, answer sets that between them reach the three tiers.
TierExamples(domain) ==
    CASE domain = "debt" ->
           {MakeDict(DebtKeys, <<<<"1", " ", "0", "0", "0", " ", "0", "0", "0">>, Absent, Absent, Absent, Absent>>),
            MakeDict(DebtKeys, <<<<"5", "0", "0", "0", "0">>, Absent, Absent, Absent, Absent>>),
            DebtSpecExample}
      [] domain = "market" ->
           {MakeDict(MarketKeys, <<<<"1", "0">>, Absent, Absent>>),
            MakeDict(MarketKeys, <<<<"0">>, Absent, Absent>>),
            MarketSpecExample}
      [] domain = "hiring" ->
           {MakeDict(HiringKeys, <<<<"5", " ", "l", "e", "t">>, Absent, Absent, Absent>>),
            MakeDict(HiringKeys, <<<<"5", " ", "l", "e", "t">>, <<"n", "e", "t">>, Absent, Absent>>),
            HiringSpecExample}
      [] domain = "import" ->
           {MakeDict(ImportKeys, <<<<"p", "r", "o", "v", "e", "r", "ya", "l">>, Absent, Absent, Absent>>),
            MakeDict(ImportKeys, <<<<"n", "e", " ", "p", "r", "o", "v", "e", "r", "ya", "l">>, Absent, Absent, Absent>>),
            MakeDict(ImportKeys, <<<<"n", "e", " ", "p", "r", "o", "v", "e", "r", "ya", "l">>, <<"1", "0", "0", "%", " ", "p", "r", "e", "d", "o",
                                          "p", "l", "a", "t", "a">>, <<"K", "i", "t", "a", "j">>, Absent>>)}
      [] domain = "idea" ->
           {MakeDict(IdeaKeys, <<<<"P", "r", "o", "d", "a", "v", "a", "t", "soft", " ", "o",
                                   "d", "e", "zh", "d", "u", " ", "0", "2", "0">>, <<"s", "t", "u", "d", "e", "n", "t", "y", "1", "0">>, <<"e", "s", "t", "soft", " ", "d", "v", "a">>,
                                 <<"p", "o", "d", "p", "i", "s", "k", "a", "1", "0">>, Absent>>),
            MakeDict(IdeaKeys, <<<<"P", "r", "o", "d", "a", "v", "a", "t", "soft", " ", "o",
                                   "d", "e", "zh", "d", "u", " ", "0", "2", "0">>, <<"s", "t", "u", "d", "e", "n", "t", "y", "1", "0">>, <<"n", "e", " ", "z", "n", "a", "yu">>,
                                 <<"p", "o", "d", "p", "i", "s", "k", "a", "1", "0">>, Absent>>),
            MakeDict(IdeaKeys, <<Absent, Absent, Absent, Absent, Absent>>)}

\* C15: the recommendation of every rule-based verdict is determined by the
\* verdict's tier alone: it is non-empty and it is the recommendation of
\* every other verdict of the domain with that tier.
C15_RecommendationByTier ==
    (op # "idle" /\ ~IsAI(result) /\ "recommendation" \in DOMAIN result)
    => /\ result.recommendation # <<>>
       /\ \E e \in TierExamples(DomainOf(op)) :
             Tier(Fresh(DomainOf(op), e)) = Tier(result)
       /\ \A e \in TierExamples(DomainOf(op)) :
             Tier(Fresh(DomainOf(op), e)) = Tier(result)
             => Fresh(DomainOf(op), e).recommendation = result.recommendation

\* A red debt verdict from other answers than the red example's.
C15_Witness ==
    /\ op = "Debt.analyze"
    /\ ~IsAI(result)
    /\ result.zone = "red"
    /\ answers # DebtSpecExample
    /\ result.recommendation = Fresh("debt", DebtSpecExample).recommendation
    /\ result.recommendation # <<>>

(***************************************************************************)
(* The formatters generate_free_verdict and generate_<domain>_verdict:     *)
(* each constructs a generator, calls analyze and renders the returned     *)
(* dict into the returned str.  In SpecFormat the initial state holds the  *)
(* arguments of one call and each action is one formatter; op, answers,    *)
(* provider, result hold the call as in Spec and rendered the returned     *)
(* text.                                                                   *)
(***************************************************************************)

\* sep.join(parts)
RECURSIVE Join(_, _)
Join(sep, parts) ==
    IF parts = <<>> THEN <<>>
    ELSE IF Len(parts) = 1 THEN parts[1]
    ELSE parts[1] \o sep \o Join(sep, Tail(parts))

\* Debt_verdict_text without the test that risk_factors is non-empty.
Debt_verdict_text_always_list(res) ==
    IF ~Get(res, "ai_generated", FALSE)
    THEN res.verdict \o <<"LF", "LF", "P", "r", "o", "b", "l", "e", "m", "y", ":", "LF",
                          "BULLET", " ">> \o Join(<<"LF", "BULLET", " ">>, res.risk_factors)
    ELSE res.verdict

\* verdict_text of generate_free_verdict for the dict analyze returned
\* (debt.py:129-134).
Debt_verdict_text(res) ==
    IF ~Get(res, "ai_generated", FALSE) /\ res.risk_factors # <<>>
    THEN res.verdict \o <<"LF", "LF", "P", "r", "o", "b", "l", "e", "m", "y", ":", "LF",
                          "BULLET", " ">> \o Join(<<"LF", "BULLET", " ">>, res.risk_factors)
    ELSE res.verdict

\* debt.py:118-134; c is the configuration of the QwenAnalyzer() that
\* DebtVerdictGenerator(use_ai=use_ai) constructs.
generate_free_verdict(data, ai, c, outcome) ==
    Debt_verdict_text(Debt_analyze(<<>>, ai, c, data, outcome).ret)

\* Market_verdict_text with the issues joined last to first.
Market_verdict_text_reversed(res) ==
    LET n == Len(res.issues) IN
    IF res.issues # <<>>
    THEN res.verdict \o <<"LF", "LF">> \o Join(<<"LF">>, [i \in 1..n |-> res.issues[n + 1 - i]])
    ELSE res.verdict

\* market.py:116-121
Market_verdict_text(res) ==
    IF res.issues # <<>>
    THEN res.verdict \o <<"LF", "LF">> \o Join(<<"LF">>, res.issues)
    ELSE res.verdict

\* market.py:106-121
generate_market_verdict(data) == Market_verdict_text(Market_analyze(<<>>, data).ret)

\* hiring.py:123-128
Hiring_verdict_text(res) ==
    IF res.risk_factors # <<>>
    THEN res.verdict \o <<"LF", "LF">> \o Join(<<"LF">>, res.risk_factors)
    ELSE res.verdict

\* hiring.py:113-128
generate_hiring_verdict(data) == Hiring_verdict_text(Hiring_analyze(<<>>, data).ret)

\* import_mod.py:123-128
Import_verdict_text(res) ==
    IF res.risk_factors # <<>>
    THEN res.verdict \o <<"LF", "LF">> \o Join(<<"LF">>, res.risk_factors)
    ELSE res.verdict

\* import_mod.py:113-128
generate_import_verdict(data) == Import_verdict_text(Import_analyze(<<>>, data).ret)

\* idea.py:131-136
Idea_verdict_text(res) ==
    IF res.weak_points # <<>>
    THEN res.verdict \o <<"LF", "LF">> \o Join(<<"LF">>, res.weak_points)
    ELSE res.verdict

\* idea.py:121-136
generate_idea_verdict(data) == Idea_verdict_text(Idea_analyze(<<>>, data).ret)

\* The arguments of one formatter call and what its environment will do:
\* for generate_free_verdict the use_ai argument, the configuration of the
\* QwenAnalyzer() the generator constructs and the provider's behaviour.
InitFormat ==
    /\ obj = "none"
    /\ risk_factors = <<>>
    /\ op = "idle"
    /\ provider_calls = 0
    /\ result = <<>>
    /\ rendered = <<>>
    /\ reused = FALSE
    /\ ZoneIdle
    /\ CheckIdle
    /\ ConcIdle
    /\ SlangIdle
    /\ \/ /\ answers \in DebtAnswers
          /\ use_ai \in BOOLEAN
          /\ \E api_key, local, has_dashscope, has_ollama \in BOOLEAN :
                LET c == Qwen_init(api_key, local, has_dashscope, has_ollama) IN
                /\ use_local = c.use_local
                /\ client = c.client
                /\ ollama_client = c.ollama_client
          /\ provider \in DebtOutcomes(use_ai, cfg)
       \/ /\ answers \in MarketAnswers \cup HiringAnswers \cup ImportAnswers \cup IdeaAnswers
          /\ use_ai = FALSE
          /\ use_local = FALSE
          /\ client = FALSE
          /\ ollama_client = FALSE
          /\ provider = NotCalled

\* A formatter returns: the generator it built is local to the call.
FormatReturns(name, calls, res, verdict_text) ==
    /\ op' = name
    /\ provider_calls' = calls
    /\ result' = res
    /\ rendered' = verdict_text
    /\ UNCHANGED <<obj, use_ai, risk_factors, use_local, client, ollama_client, answers,
                   provider, reused, outside_main>>

GenerateFreeVerdict ==
    /\ op = "idle"
    /\ answers \in DebtAnswers
    /\ FormatReturns("generate_free_verdict", Debt_analyze_calls(use_ai, cfg, provider),
                     Debt_analyze(<<>>, use_ai, cfg, answers, provider).ret,
                     generate_free_verdict(answers, use_ai, cfg, provider))

GenerateMarketVerdict ==
    /\ op = "idle"
    /\ answers \in MarketAnswers /\ provider = NotCalled /\ ~use_ai /\ cfg = NoAdapter
    /\ FormatReturns("generate_market_verdict", 0, Market_analyze(<<>>, answers).ret,
                     generate_market_verdict(answers))

GenerateHiringVerdict ==
    /\ op = "idle"
    /\ answers \in HiringAnswers /\ provider = NotCalled /\ ~use_ai /\ cfg = NoAdapter
    /\ FormatReturns("generate_hiring_verdict", 0, Hiring_analyze(<<>>, answers).ret,
                     generate_hiring_verdict(answers))

GenerateImportVerdict ==
    /\ op = "idle"
    /\ answers \in ImportAnswers /\ provider = NotCalled /\ ~use_ai /\ cfg = NoAdapter
    /\ FormatReturns("generate_import_verdict", 0, Import_analyze(<<>>, answers).ret,
                     generate_import_verdict(answers))

GenerateIdeaVerdict ==
    /\ op = "idle"
    /\ answers \in IdeaAnswers /\ provider = NotCalled /\ ~use_ai /\ cfg = NoAdapter
    /\ FormatReturns("generate_idea_verdict", 0, Idea_analyze(<<>>, answers).ret,
                     generate_idea_verdict(answers))

NextFormat ==
    \/ GenerateFreeVerdict
    \/ GenerateMarketVerdict
    \/ GenerateHiringVerdict
    \/ GenerateImportVerdict
    \/ GenerateIdeaVerdict

SpecFormat == InitFormat /\ [][NextFormat]_vars

FormatOps ==
    {"generate_free_verdict", "generate_market_verdict", "generate_hiring_verdict",
     "generate_import_verdict", "generate_idea_verdict"}

\* The bulleted list of the debt formatter, one signal after the other.
RECURSIVE Bulleted(_)
Bulleted(signals) ==
    IF signals = <<>> THEN <<>>
    ELSE <<"LF", "BULLET", " ">> \o Head(signals) \o Bulleted(Tail(signals))

\* C16: generate_free_verdict returns the AI text unmodified when the
\* verdict is AI-generated, exactly the headline when a rule-based verdict
\* has no signals, and otherwise the headline followed by a bulleted list
\* of every signal of the verdict in order.
C16_DebtFormatter ==
    op = "generate_free_verdict"
    => IF IsAI(result) THEN rendered = provider.text
       ELSE /\ result.verdict = Debt_generate_verdict(result.risk_factors).text
            /\ rendered = IF result.risk_factors = <<>> THEN result.verdict
                          ELSE result.verdict \o <<"LF", "LF", "P", "r", "o", "b", "l", "e", "m", "y",
                                          ":">>
                                   \o Bulleted(result.risk_factors)

\* A rule-based verdict rendered as the headline with five bullets.
C16_Witness ==
    /\ op = "generate_free_verdict"
    /\ ~IsAI(result)
    /\ Len(result.risk_factors) = 5
    /\ Len(rendered) > Len(result.verdict)

\* The least position from which sub occurs in s at or after position from;
\* 0 when there is none.
IndexFrom(sub, s, from) ==
    LET at == {i \in from..(Len(s) - Len(sub) + 1) : SubSeq(s, i, i + Len(sub) - 1) = sub}
    IN  IF at = {} THEN 0 ELSE CHOOSE i \in at : \A j \in at : i <= j

\* The signals occur in s one after the other, from position from on.
RECURSIVE OccurInOrder(_, _, _)
OccurInOrder(signals, s, from) ==
    IF signals = <<>> THEN TRUE
    ELSE LET i == IndexFrom(Head(signals), s, from) IN
         i > 0 /\ OccurInOrder(Tail(signals), s, i + Len(Head(signals)))

\* The headline a domain gives to a signal sequence.
HeadlineOf(domain, signals) ==
    CASE domain = "debt" -> Debt_generate_verdict(signals).text
      [] domain = "market" -> Market_generate_verdict(signals).text
      [] domain = "hiring" -> Hiring_generate_verdict(signals).text
      [] domain = "import" -> Import_generate_verdict(signals).text
      [] domain = "idea" -> Idea_generate_verdict(signals).text

FormatDomain(o) ==
    CASE o = "generate_free_verdict" -> "debt"
      [] o = "generate_market_verdict" -> "market"
      [] o = "generate_hiring_verdict" -> "hiring"
      [] o = "generate_import_verdict" -> "import"
      [] o = "generate_idea_verdict" -> "idea"

\* C17: for each of the five domains and every answer set the rendered
\* text of the rule-based verdict starts with the headline of the computed
\* tier, which names the zone ("zona") or for hiring the risk ("risk"),
\* followed by every accumulated signal in order when there is at least
\* one and by nothing when there is none.
C17_RenderedStartsWithHeadline ==
    (op \in FormatOps /\ ~IsAI(result))
    => LET domain   == FormatDomain(op)
           signals  == Signals(result)
           headline == HeadlineOf(domain, signals)
       IN  /\ result.verdict = headline
           /\ Len(rendered) >= Len(headline)
           /\ SubSeq(rendered, 1, Len(headline)) = headline
           /\ Contains(IF domain = "hiring" THEN <<"r", "i", "s", "k">> ELSE <<"z", "o", "n", "a">>, Lower(headline))
           /\ signals = <<>> => rendered = headline
           /\ signals # <<>>
              => /\ Len(rendered) > Len(headline)
                 /\ OccurInOrder(signals, rendered, Len(headline) + 1)

\* The hiring example of the spec rendered with its three risk factors.
C17_Witness ==
    /\ op = "generate_hiring_verdict"
    /\ answers = HiringSpecExample
    /\ Len(result.risk_factors) = 3
    /\ Contains(<<"r", "i", "s", "k">>, Lower(SubSeq(rendered, 1, Len(result.verdict))))
    /\ OccurInOrder(result.risk_factors, rendered, Len(result.verdict) + 1)

(***************************************************************************)
(* Interleaved analyze() calls.  Two threads call analyze() on a generator *)
(* of class conc_domain, MaxCalls times in all, a thread calling again     *)
(* once its call has returned; conc_inst[t] is the instance thread t      *)
(* uses, so the threads use two objects or the same one.  A list object is *)
(* an index of conc_heap; conc_acc[i] is the list self.risk_factors refers *)
(* to in instance i.  A thread takes one step per statement of analyze():  *)
(* the reset, each check, _generate_verdict and the return; conc_data,     *)
(* conc_verdict and conc_ret are the thread's argument, its local          *)
(* `verdict` and the dict it returned last, whose risk_factors entry is    *)
(* the list object itself; the caller keeps that dict until its next call  *)
(* returns.                                                                *)
(***************************************************************************)

MaxCalls == 2

Threads == {1, 2}

Instances == {1, 2}

ConcDomains == {"import", "hiring"}

ConcAnswers(domain) ==
    IF domain = "import"
    THEN {MakeDict(ImportKeys, <<Absent, Absent, Absent, Absent>>),
          MakeDict(ImportKeys, <<<<"n", "e", " ", "p", "r", "o", "v", "e", "r", "ya", "l">>, Absent, <<"T", "u", "r", "c", "i", "ya">>, <<"5", "0", "0", "0">>>>),
          MakeDict(ImportKeys, <<<<"n", "e", " ", "p", "r", "o", "v", "e", "r", "ya", "l">>, <<"1", "0", "0", "%", " ", "p", "r", "e", "d", "o",
                                          "p", "l", "a", "t", "a">>, <<"K", "i", "t", "a", "j">>, Absent>>)}
    ELSE {MakeDict(HiringKeys, <<Absent, Absent, Absent, Absent>>),
          MakeDict(HiringKeys, <<<<"5", " ", "l", "e", "t">>, <<"n", "e", "t">>, Absent, <<"2", "0", "0", "0", "0", "0">>>>),
          HiringSpecExample}

\* The statements of analyze() in program order (import_mod.py:33-60,
\* hiring.py:33-60); "call" is before the call and "done" after the return.
Statements ==
    <<"call", "reset", "check1", "check2", "check3", "check4", "verdict", "return",
      "done">>

After(statement) ==
    Statements[(CHOOSE k \in 1..Len(Statements) : Statements[k] = statement) + 1]

\* AccOf with risk_factors as an attribute of the class, shared by its
\* instances.
AccOf_class_level(acc, i) == acc[1]

\* The list self.risk_factors refers to, self being instance i.
AccOf(acc, i) == acc[i]

\* self.risk_factors = <list l>
BindAcc(acc, i, l) == [acc EXCEPT ![i] = l]

\* ResetAcc that empties the list in place (self.risk_factors.clear()).
ResetAcc_in_place(heap, acc, i) ==
    [heap |-> [heap EXCEPT ![AccOf(acc, i)] = <<>>], acc |-> acc]

\* self.risk_factors = []: a new, empty list object, bound to the attribute
\* of instance i.
ResetAcc(heap, acc, i) ==
    [heap |-> Append(heap, <<>>), acc |-> BindAcc(acc, i, Len(heap) + 1)]

\* The k-th check of the domain applied to the list rf.
AnalyzeCheck(domain, k, rf, data) ==
    IF domain = "import"
    THEN CASE k = 1 -> Import_analyze_supplier_check(rf, Get(data, "supplier_check", <<>>))
           [] k = 2 -> Import_analyze_payment_terms(rf, Get(data, "payment_terms", <<>>))
           [] k = 3 -> Import_analyze_country(rf, Get(data, "country", <<>>))
           [] k = 4 -> Import_analyze_batch_size(rf, Get(data, "batch_size", <<>>))
    ELSE CASE k = 1 -> Hiring_analyze_experience(rf, Get(data, "experience", <<>>))
           [] k = 2 -> Hiring_analyze_references(rf, Get(data, "references", <<>>))
           [] k = 3 -> Hiring_analyze_probation(rf, Get(data, "probation", <<>>))
           [] k = 4 -> Hiring_analyze_salary(rf, Get(data, "salary", <<>>))

\* verdict = self._generate_verdict(): headline and tier.
AnalyzeVerdict(domain, rf) ==
    IF domain = "import"
    THEN [text |-> Import_generate_verdict(rf).text, tier |-> Import_generate_verdict(rf).zone]
    ELSE [text |-> Hiring_generate_verdict(rf).text, tier |-> Hiring_generate_verdict(rf).level]

\* The returned dict; l is the list object self.risk_factors refers to.
AnalyzeReturn(domain, verdict, l) ==
    IF domain = "import"
    THEN [verdict |-> verdict.text, zone |-> verdict.tier, risk_factors |-> l,
          recommendation |-> Import_get_recommendation(verdict.tier)]
    ELSE [verdict |-> verdict.text, risk_level |-> verdict.tier, risk_factors |-> l,
          recommendation |-> Hiring_get_recommendation(verdict.tier)]

\* Both generators constructed (each __init__ creates a list), no call yet.
InitConc ==
    /\ MainIdle
    /\ ZoneIdle
    /\ CheckIdle
    /\ SlangIdle
    /\ conc_domain \in ConcDomains
    /\ conc_heap = <<<<>>, <<>>>>
    /\ conc_acc = [i \in Instances |-> i]
    /\ conc_inst \in {[t \in Threads |-> t], [t \in Threads |-> 1]}
    /\ conc_data = [t \in Threads |-> <<>>]
    /\ conc_pc = [t \in Threads |-> "call"]
    /\ conc_verdict = [t \in Threads |-> <<>>]
    /\ conc_ret = [t \in Threads |-> <<>>]
    /\ conc_calls = 0

Step(t) == conc_pc' = [conc_pc EXCEPT ![t] = After(conc_pc[t])]

ConcCall(t) ==
    /\ conc_pc[t] \in {"call", "done"}
    /\ conc_calls < MaxCalls
    /\ conc_calls' = conc_calls + 1
    /\ \E data \in ConcAnswers(conc_domain) : conc_data' = [conc_data EXCEPT ![t] = data]
    /\ conc_pc' = [conc_pc EXCEPT ![t] = "reset"]
    /\ UNCHANGED <<conc_domain, conc_heap, conc_acc, conc_inst, conc_verdict, conc_ret,
                   outside_conc>>

ConcReset(t) ==
    /\ conc_pc[t] = "reset"
    /\ conc_heap' = ResetAcc(conc_heap, conc_acc, conc_inst[t]).heap
    /\ conc_acc' = ResetAcc(conc_heap, conc_acc, conc_inst[t]).acc
    /\ Step(t)
    /\ UNCHANGED <<conc_domain, conc_inst, conc_data, conc_verdict, conc_ret, conc_calls,
                   outside_conc>>

ConcCheck(t) ==
    /\ conc_pc[t] \in {"check1", "check2", "check3", "check4"}
    /\ LET k == CHOOSE n \in 1..4 : Statements[n + 2] = conc_pc[t]
           l == AccOf(conc_acc, conc_inst[t])
       IN  conc_heap' =
               [conc_heap EXCEPT ![l] = AnalyzeCheck(conc_domain, k, @, conc_data[t])]
    /\ Step(t)
    /\ UNCHANGED <<conc_domain, conc_acc, conc_inst, conc_data, conc_verdict, conc_ret,
                   conc_calls, outside_conc>>

ConcVerdict(t) ==
    /\ conc_pc[t] = "verdict"
    /\ conc_verdict' =
           [conc_verdict EXCEPT
               ![t] = AnalyzeVerdict(conc_domain, conc_heap[AccOf(conc_acc, conc_inst[t])])]
    /\ Step(t)
    /\ UNCHANGED <<conc_domain, conc_heap, conc_acc, conc_inst, conc_data, conc_ret,
                   conc_calls, outside_conc>>

ConcReturn(t) ==
    /\ conc_pc[t] = "return"
    /\ conc_ret' =
           [conc_ret EXCEPT
               ![t] = AnalyzeReturn(conc_domain, conc_verdict[t],
                                    AccOf(conc_acc, conc_inst[t]))]
    /\ Step(t)
    /\ UNCHANGED <<conc_domain, conc_heap, conc_acc, conc_inst, conc_data, conc_verdict,
                   conc_calls, outside_conc>>

NextConc ==
    \E t \in Threads :
        \/ ConcCall(t)
        \/ ConcReset(t)
        \/ ConcCheck(t)
        \/ ConcVerdict(t)
        \/ ConcReturn(t)

SpecConc == InitConc /\ [][NextConc]_vars

\* The verdict thread t holds, its signal list read through the reference.
Returned(t) == [conc_ret[t] EXCEPT !.risk_factors = conc_heap[@]]

DistinctInstances == conc_inst[1] # conc_inst[2]

\* C18: analyzer instances that are distinct objects can run analyze()
\* with their steps interleaved in any order: each call returns, and its
\* caller keeps, the verdict the call gives when run alone.
C18_DistinctInstancesIndependent ==
    \A t \in Threads :
        (DistinctInstances /\ conc_pc[t] = "done")
        => Returned(t) = Fresh(conc_domain, conc_data[t])

\* Thread 1 ran its whole call, with three signals, between the reset and
\* the third check of thread 2 on another instance.
C18_Witness ==
    /\ DistinctInstances
    /\ conc_acc[conc_inst[2]] = 3
    /\ conc_acc[conc_inst[1]] = 4
    /\ conc_pc[1] = "done"
    /\ conc_pc[2] = "check3"
    /\ Len(Returned(1).risk_factors) = 3
    /\ Len(conc_heap[3]) >= 1
    /\ Returned(1) = Fresh(conc_domain, conc_data[1])

\* The provider was asked and gave nothing usable: the call raised (time
\* out, connection error, malformed response) or returned None or "".
ProviderFailed ==
    \/ provider.kind \in {"raise", "none"}
    \/ provider.kind = "text" /\ provider.text = <<>>

\* C19: one analysis request issues at most one provider request: after a
\* failed provider call the adapter, and DebtVerdictGenerator.analyze with
\* AI enabled, returns the rule-based verdict without asking the provider
\* again, and the returned verdict holds no part of an AI result.
C19_AtMostOneProviderRequest ==
    op \in AnalyzeOps \cup AdapterOps
    => /\ provider_calls <= 1
       /\ ProviderFailed
          => /\ provider_calls = 1
             /\ result = RuleBasedOf(op, answers)

\* A debt analysis with AI enabled whose provider call raised: one request
\* and the rule-based red verdict with five signals.
C19_Witness ==
    /\ op = "Debt.analyze"
    /\ use_ai
    /\ provider.kind = "raise"
    /\ provider_calls = 1
    /\ ~IsAI(result)
    /\ Len(result.risk_factors) = 5

(***************************************************************************)
(* utils/slang.py: SlangNormalizer.  The module is imported by the package *)
(* (utils/__init__.py:13) and exercised by tests/test_slang.py, but its    *)
(* source is not part of the repository snapshot; the definitions below    *)
(* follow section 4.1 of the specification.  A text is the sequence of its *)
(* tokens (words, numbers, punctuation marks), each a str; slang_dict maps *)
(* a surface form in lower case to its canonical form and slang_log lists  *)
(* the add_custom_slang calls made so far.  Slang matching is              *)
(* by token and case-insensitive; normalize (a) replaces slang tokens and  *)
(* then (b) removes filler tokens.                                         *)
(***************************************************************************)

\* The built-in entries the spec and the tests name.
BuiltinSlang ==
    (<<"l", "ya", "m">> :> <<"m", "i", "l", "l", "i", "o", "n">>) @@ (<<"t", "e", "ng", "g", "e">> :> <<"t", "e", "n", "g", "e">>) @@ (<<"t", "y", "s">> :> <<"t", "y", "s", "ya", "ch">>)

Fillers == {<<"k", "o", "r", "o", "ch", "e">>, <<"n", "u">>, <<"t", "i", "p", "a">>}

\* add_custom_slang that keeps the entry a surface key already has.
add_custom_slang_keep_first(dict, surface, canonical) ==
    IF Lower(surface) \in DOMAIN dict THEN dict
    ELSE SetItem(dict, Lower(surface), canonical)

\* add_custom_slang(surface, canonical): a later registration replaces an
\* earlier one for the same surface key.
add_custom_slang(dict, surface, canonical) == SetItem(dict, Lower(surface), canonical)

\* (a) every slang token becomes its canonical form
ReplaceSlang(dict, tokens) ==
    [i \in 1..Len(tokens) |->
        IF Lower(tokens[i]) \in DOMAIN dict THEN dict[Lower(tokens[i])] ELSE tokens[i]]

\* IsNoFiller that compares the token as written.
IsNoFiller_case_sensitive(token) == token \notin Fillers

\* (b) every filler token is removed
IsNoFiller(token) == Lower(token) \notin Fillers
RemoveFillers(tokens) == SelectSeq(tokens, IsNoFiller)

\* normalize with the fillers removed before the slang is replaced.
normalize_fillers_first(dict, tokens) == ReplaceSlang(dict, RemoveFillers(tokens))

normalize(dict, tokens) == RemoveFillers(ReplaceSlang(dict, tokens))

MaxTokens == 3

MaxRegistrations == 2

SlangTokens ==
    {<<"L", "YA", "M">>, <<"K", "o", "r", "o", "ch", "e">>, <<"n", "u">>, <<"n", "u", "zh", "n", "o">>, <<"5", "0", "0">>, <<"t", "e", "s", "t", "o", "v", "o", "e">>}

SlangTexts == UNION {[1..n -> SlangTokens] : n \in 0..MaxTokens}

\* Registrations a caller makes: a new surface form, a surface form that
\* is built in (in another letter case), canonical forms that are a filler
\* or a built-in surface form.
CustomSurfaces == {<<"t", "e", "s", "t", "o", "v", "o", "e">>, <<"L", "YA", "M">>}
CustomCanonicals == {<<"n", "u">>, <<"l", "ya", "m">>}

InitSlang ==
    /\ MainIdle
    /\ ZoneIdle
    /\ CheckIdle
    /\ ConcIdle
    /\ slang_dict = BuiltinSlang
    /\ slang_log = <<>>
    /\ slang_op = "none"
    /\ slang_text \in SlangTexts
    /\ slang_once = <<>>
    /\ slang_twice = <<>>

AddCustomSlang ==
    /\ slang_op = "none"
    /\ Len(slang_log) < MaxRegistrations
    /\ \E surface \in CustomSurfaces, canonical \in CustomCanonicals :
          /\ slang_dict' = add_custom_slang(slang_dict, surface, canonical)
          /\ slang_log' = Append(slang_log, <<surface, canonical>>)
    /\ UNCHANGED <<slang_op, slang_text, slang_once, slang_twice, outside_slang>>

\* normalize(x) and normalize(normalize(x))
Normalize ==
    /\ slang_op = "none"
    /\ slang_op' = "normalize"
    /\ slang_once' = normalize(slang_dict, slang_text)
    /\ slang_twice' = normalize(slang_dict, normalize(slang_dict, slang_text))
    /\ UNCHANGED <<slang_dict, slang_log, slang_text, outside_slang>>

NextSlang == AddCustomSlang \/ Normalize

SpecSlang == InitSlang /\ [][NextSlang]_vars

\* No canonical form is itself a slang source token (in any letter case).
CanonicalsAreNotSources(dict) == \A k \in DOMAIN dict : Lower(dict[k]) \notin DOMAIN dict

RegistrationsOf(log, token) ==
    {i \in 1..Len(log) : Lower(log[i][1]) = Lower(token)}

\* What one substitution pass makes of token after the registrations of
\* log: the canonical form of the latest registration of its surface form,
\* else the built-in canonical form, else the token itself.
CanonicalAfter(log, token) ==
    IF RegistrationsOf(log, token) # {}
    THEN log[CHOOSE i \in RegistrationsOf(log, token) :
                 \A j \in RegistrationsOf(log, token) : j <= i][2]
    ELSE IF Lower(token) \in DOMAIN BuiltinSlang
    THEN BuiltinSlang[Lower(token)]
    ELSE token

\* C21: after any sequence of add_custom_slang registrations, normalize
\* replaces each registered surface form in the same substitution pass as
\* the built-in entries, and for a surface key registered more than once
\* (or already built in) the canonical form of the latest registration is
\* the one used.
C21_LatestRegistrationUsed ==
    slang_op = "normalize"
    => slang_once =
           SelectSeq([i \in 1..Len(slang_text) |-> CanonicalAfter(slang_log, slang_text[i])],
                     LAMBDA token : Lower(token) \notin Fillers)

\* A built-in surface form registered twice with two canonical forms, the
\* second of them used for the token of the input.
C21_Witness ==
    /\ slang_op = "normalize"
    /\ slang_log = <<<<<<"L", "YA", "M">>, <<"n", "u">>>>, <<<<"L", "YA", "M">>, <<"l", "ya", "m">>>>>>
    /\ slang_text = <<<<"L", "YA", "M">>, <<"t", "e", "s", "t", "o", "v", "o", "e">>, <<"5", "0", "0">>>>
    /\ slang_once = <<<<"l", "ya", "m">>, <<"t", "e", "s", "t", "o", "v", "o", "e">>, <<"5", "0", "0">>>>

\* The tokens of tokens that are no filler word in any letter case, in
\* their order.
RECURSIVE WithoutFillerWords(_)
WithoutFillerWords(tokens) ==
    IF tokens = <<>> THEN <<>>
    ELSE IF \E filler \in Fillers : Lower(Head(tokens)) = filler
    THEN WithoutFillerWords(Tail(tokens))
    ELSE <<Head(tokens)>> \o WithoutFillerWords(Tail(tokens))

\* No token of tokens is a slang surface form of dict.
HasNoSlang(dict, tokens) ==
    \A i \in 1..Len(tokens) : Lower(tokens[i]) \notin DOMAIN dict

OneAmountSignal(out, data) ==
    /\ Len(out) = Len(DebtOtherSignals(data)) + 1
    /\ Tail(out) = DebtOtherSignals(data)

\* C23: the debt amount check adds exactly one signal when the amount is
\* below 100000, exactly one when it is above 5000000 and none for an
\* amount from 100000 to 5000000 inclusive; an answer set that holds only
\* the amount '6000000' or only the amount '50000' gives exactly one signal
\* and the yellow tier.
C23_AmountThresholds ==
    chk_op = "Debt._analyze_amount"
    => /\ chk_text \in AmountsBelow \cup AmountsAbove
          => OneAmountSignal(chk_out, chk_other)
       /\ chk_text \in AmountsWithin => chk_out = DebtOtherSignals(chk_other)
       /\ (chk_text \in {<<"6", "0", "0", "0", "0", "0", "0">>, <<"5", "0", "0", "0", "0">>} /\ DOMAIN chk_other = {})
          => Len(chk_out) = 1 /\ chk_zone = "yellow"

\* The upper limit itself as the only answer: no signal, green tier.
C23_Witness ==
    /\ chk_op = "Debt._analyze_amount"
    /\ chk_text = <<"5", "0", "0", "0", "0", "0", "0">>
    /\ DOMAIN chk_other = {}
    /\ chk_out = <<>>
    /\ chk_zone = "green"

\* A signal of the k-th check of the domain is among the signals.
HasSignalOf(domain, k, signals) ==
    \E i \in 1..Len(signals) : CheckOf(domain, signals[i]) = k

\* The text holds a "don't know" marker, in Russian or in Kazakh.
HasDontKnow(answer) ==
    Contains(<<"n", "e", " ", "z", "n", "a", "yu">>, Lower(answer)) \/ Contains(<<"b", "ii", "l", "m", "e", "j", "m", "ii", "n">>, Lower(answer))

\* C25: the idea checks compare lengths strictly: the description signal is
\* added exactly when the description has fewer than 20 characters, the
\* revenue model signal exactly when the revenue model has fewer than 10,
\* and the audience signal exactly when the audience holds a "don't know"
\* marker or has fewer than 10; a length of exactly 20 (exactly 10) adds no
\* length signal.
C25_IdeaLengthsStrict ==
    (op \in {"Idea.analyze", "Qwen.analyze_idea"} /\ HasSignals(result))
    => /\ HasSignalOf("idea", 1, Signals(result))
            <=> Len(Get(answers, "idea_description", <<>>)) < 20
       /\ HasSignalOf("idea", 4, Signals(result))
            <=> Len(Get(answers, "revenue_model", <<>>)) < 10
       /\ HasSignalOf("idea", 2, Signals(result))
            <=> (HasDontKnow(Get(answers, "target_audience", <<>>))
                 \/ Len(Get(answers, "target_audience", <<>>)) < 10)

\* A description of exactly 20 characters with an audience and a revenue
\* model of exactly 10: no signal.
C25_Witness ==
    /\ op = "Idea.analyze"
    /\ "idea_description" \in DOMAIN answers /\ Len(answers["idea_description"]) = 20
    /\ "target_audience" \in DOMAIN answers /\ Len(answers["target_audience"]) = 10
    /\ "revenue_model" \in DOMAIN answers /\ Len(answers["revenue_model"]) = 10
    /\ Signals(result) = <<>>

HasYearMarker(date) ==
    Contains(<<"g", "o", "d">>, Lower(date)) \/ Contains(<<"l", "e", "t">>, Lower(date))
HasMonthMarker(date) == Contains(<<"m", "e", "s", "ya", "c">>, Lower(date))

\* C26: the debt date check adds at most one signal and the year marker
\* has precedence over the month marker: the 'medium term' signal is added
\* only when a month marker is present and no year marker is, and a date
\* with a year marker gets the 'old debt' signal.
C26_YearMarkerFirst ==
    chk_op = "Debt._analyze_amount"
    => LET date   == Get(chk_other, "date", <<>>)
           old    == {i \in 1..Len(chk_out) :
                         chk_out[i] = <<"D", "o", "l", "g", " ", "s", "t", "a", "r", "y", "j",
                                        " ", "--", " ", "v", "y", "s", "o", "k", "i", "j", " ",
                                        "r", "i", "s", "k", " ", "n", "e", "v", "o", "z", "v",
                                        "r", "a", "t", "a", ".">>}
           medium == {i \in 1..Len(chk_out) :
                         chk_out[i] = <<"S", "r", "o", "k", " ", "s", "r", "e", "d", "n", "i",
                                        "j", " ", "--", " ", "e", "shch", "yo", " ", "m", "o",
                                        "zh", "n", "o", " ", "v", "e", "r", "n", "u", "t",
                                        "soft", ".">>}
       IN  /\ Cardinality(old \cup medium) <= 1
           /\ medium # {} <=> (HasMonthMarker(date) /\ ~HasYearMarker(date))
           /\ old # {} <=> HasYearMarker(date)

\* A date that names years (in upper case) and months: the 'old debt'
\* signal alone.
C26_Witness ==
    /\ chk_op = "Debt._analyze_amount"
    /\ "date" \in DOMAIN chk_other
    /\ chk_other["date"] = <<"1", " ", "G", "O", "D", " ", "2", " ", "m", "e", "s", "ya", "c",
                             "a">>
    /\ chk_text = <<"1", "0", "0", "0", "0", "0">>
    /\ chk_out = <<<<"D", "o", "l", "g", " ", "s", "t", "a", "r", "y", "j", " ", "--", " ",
                     "v", "y", "s", "o", "k", "i", "j", " ", "r", "i", "s", "k", " ", "n", "e",
                     "v", "o", "z", "v", "r", "a", "t", "a", ".">>>>

\* C27: the import payment-terms check adds the 'maximum risk' signal
\* exactly when the payment-terms text denotes a 100% prepayment; a text
\* that names a partial prepayment (for example '30% predoplata') adds no
\* signal.
C27_FullPrepaymentOnly ==
    op = "Import.analyze"
    => (HasSignalOf("import", 2, Signals(result))
        <=> Contains(<<"1", "0", "0", "%">>, Lower(Get(answers, "payment_terms", <<>>))))

\* The number of active checks of a domain.
ActiveChecks(domain) ==
    CASE domain = "debt" -> 5
      [] domain = "market" -> 2
      [] domain = "hiring" -> 3
      [] domain = "import" -> 3
      [] domain = "idea" -> 4

\* C29: in every rule-based verdict the number of signals is bounded by
\* the number of active checks of the domain (5 for debt, 2 for market, 3
\* for hiring, 3 for import, 4 for idea); hiring and import reach the worst
\* tier only when every active check fires, and market reaches red only
\* when both of its checks fire.
C29_SignalsBoundedByChecks ==
    (op # "idle" /\ ~IsAI(result) /\ HasSignals(result))
    => /\ Len(Signals(result)) <= ActiveChecks(DomainOf(op))
       /\ (DomainOf(op) \in {"hiring", "import", "market"}
           /\ Tier(result) \in {"high", "red"})
          => \A k \in 1..ActiveChecks(DomainOf(op)) :
                HasSignalOf(DomainOf(op), k, Signals(result))

\* A hiring verdict of the worst tier, with a signal of each of the three
\* checks.
C29_Witness ==
    /\ op = "Hiring.analyze"
    /\ Tier(result) = "high"
    /\ Len(Signals(result)) = 3
    /\ \A k \in 1..3 : HasSignalOf("hiring", k, Signals(result))

\* C24: when two analyze() calls on the same analyzer instance interleave,
\* each returned verdict still contains exactly the signals of its own
\* input and the tier that matches them.
C24_SameInstanceInterleaved ==
    \A t \in Threads :
        (~DistinctInstances /\ conc_pc[t] = "done")
        => /\ Returned(t).risk_factors = Fresh(conc_domain, conc_data[t]).risk_factors
           /\ Tier(Returned(t)) = Tier(Fresh(conc_domain, conc_data[t]))

\* Thread t keeps a verdict and every call now between its reset and its
\* return on the instance of t is a later call: it began, with its reset,
\* after that verdict was returned.
OnlyLaterCalls(t) ==
    /\ conc_ret[t] # <<>>
    /\ \A u \in Threads :
          conc_inst[u] = conc_inst[t]
          => \/ conc_pc[u] \in {"call", "reset", "done"}
             \/ conc_ret[t].risk_factors # AccOf(conc_acc, conc_inst[t])

\* Thread t's call returns in this step, replacing the verdict it kept.
ReturnsNow(t) == conc_pc[t] = "return" /\ conc_pc'[t] = "done"

\* C28: a verdict already returned by analyze() is never changed by later
\* analyze() calls on the same instance: the signal sequence the earlier
\* verdict holds keeps its contents and its length.
C28_ReturnedVerdictKept ==
    [][\A t \in Threads :
          (OnlyLaterCalls(t) /\ ~ReturnsNow(t))
          => /\ conc_ret'[t] = conc_ret[t]
             /\ conc_heap'[conc_ret[t].risk_factors] = conc_heap[conc_ret[t].risk_factors]]_vars

\* Thread 1 keeps a verdict with three signals while thread 2, in a later
\* call on the same instance, has appended to the list of its own call.
C28_Witness ==
    /\ ~DistinctInstances
    /\ conc_pc[1] = "done"
    /\ conc_ret[1] # <<>>
    /\ conc_ret[1].risk_factors = 3
    /\ Len(conc_heap[3]) = 3
    /\ conc_pc[2] = "check3"
    /\ AccOf(conc_acc, conc_inst[2]) = 4
    /\ Len(conc_heap[4]) >= 1

====
